---- MODULE Spec2Model ----
(***************************************************************************)
(* Model of the Juraxis legal-record pipeline                              *)
(* (src/runpod_juraxis_pipeline.py): the batch/checkpoint loop of          *)
(* process_courtlistener_files, the two store writers, the similarity      *)
(* index point identifiers and the semantic chunker.                       *)
(*                                                                         *)
(* Strings are sequences of one-character strings.  Python's None is the   *)
(* record None; an Optional value v that is present is Some(v).            *)
(***************************************************************************)
EXTENDS Integers, Sequences, FiniteSets, TLC

VARIABLES
    pc,                 \* position of the coordinating thread in process_courtlistener_files
    docs_len,           \* len(docs) of the file being processed
    i,                  \* loop variable of `for i in range(0, len(docs), batch_size)`
    pending,            \* offsets in docs of the futures not yet yielded by as_completed
    nread,              \* records of the files already left behind (numbers the records)
    all_legal_docs,     \* the accumulated list of LegalDocument
    sqlite_documents,   \* rows of table documents (set: id is PRIMARY KEY)
    sqlite_embeddings,  \* rows of table embeddings, in insertion order
    qdrant_points,      \* points of collection juraxis_legal_cases
    error_counter,      \* prometheus counter juraxis_errors_total
    processed_documents,\* self.stats.processed_documents
    flushes,            \* history: one entry per store_in_sqlite call made by the loop
    faults,             \* store faults injected so far
    hashseed,           \* the process's string-hash seed (PYTHONHASHSEED)
    text,               \* chunker: input text
    max_chunk_size,     \* chunker: max_chunk_size argument
    chunks,             \* chunker: result of chunk_legal_document, None before the call
    raw_record,         \* process_legal_document: the raw record it is given
    extract_raises,     \* process_legal_document: extract_legal_metadata raises in this call
    proc_result,        \* process_legal_document: its result, None before the call
    field_text,         \* sanitize_text_input, clean_text: the text they are given
    sanitized,          \* results of sanitize_text_input applied once, then to its own result
    cleaned,            \* result of clean_text, None before the call
    tokenizer_loaded,   \* optimize_for_deepseek_r1: self.deepseek_tokenizer is set
    optimized,          \* results of optimize_for_deepseek_r1 applied once, then to its own result
    csv_file,           \* the dataset the CSV row was read from, "" for a JSON record
    csv_row,            \* convert_csv_row_to_document: the CSV row, None for a JSON record
    record,             \* the raw record (of a JSON file or built by the adapter), None before
    metadata,           \* extract_legal_metadata on the record's text, None before the call
    embed_texts,        \* generate_embeddings: its argument texts
    encode_fails,       \* which embedding_model.encode call raises (0: none)
    embed_result,       \* generate_embeddings: its result, None before the call
    run_pc,             \* position in main / run_full_pipeline / download_courtlistener_data
    to_validate,        \* datasets the validation loop has not reached yet
    validated_datasets, \* datasets whose URL validated
    to_download,        \* validated datasets the download loop has not reached yet
    downloaded_files,   \* files the download loop has appended
    exit_status,        \* exit status of the process, None while it runs
    read_files,         \* the files process_courtlistener_files is given
    read_pos,           \* the position of its file loop in that list
    read_docs,          \* history: the records read from each file the loop has passed
    futures,            \* the futures of the batch in the executor, by offset in docs
    legal_doc,          \* what future.result() gave the coordinating thread (line 1041)
    store_in_progress,  \* the store writes that have started and not returned
    appended_by,        \* history: the threads that have appended to all_legal_docs
    id_records,         \* document ids: two raw records
    doc_ids,            \* the ids process_legal_document gives them, None before
    build_text,         \* lines 774-807: the optimized text of the record
    build_fails,        \* the encode call that raises while it is embedded (0: none)
    built,              \* the LegalDocument of lines 774-807, None before
    built_stored        \* store_in_qdrant has been called with it

vars == <<pc, docs_len, i, pending, nread, all_legal_docs,
          sqlite_documents, sqlite_embeddings, qdrant_points, error_counter,
          processed_documents, flushes, faults, hashseed,
          text, max_chunk_size, chunks, raw_record, extract_raises, proc_result,
          field_text, sanitized, cleaned, tokenizer_loaded, optimized, csv_file, csv_row, record, metadata,
          embed_texts, encode_fails, embed_result,
          run_pc, to_validate, validated_datasets, to_download, downloaded_files,
          exit_status, read_files, read_pos, read_docs,
          futures, legal_doc, store_in_progress, appended_by, id_records, doc_ids,
          build_text, build_fails, built, built_stored>>

pipelineVars == <<pc, docs_len, i, pending, nread, all_legal_docs,
                  sqlite_documents, sqlite_embeddings, qdrant_points,
                  error_counter, processed_documents, flushes, faults, hashseed>>

chunkVars == <<text, max_chunk_size, chunks>>

docVars == <<raw_record, extract_raises, proc_result>>

textVars == <<field_text, sanitized, cleaned, tokenizer_loaded, optimized>>

classifyVars == <<csv_file, csv_row, record, metadata>>

embedVars == <<embed_texts, encode_fails, embed_result>>

runVars == <<run_pc, to_validate, validated_datasets, to_download, downloaded_files,
             exit_status>>

readVars == <<read_files, read_pos, read_docs>>

poolVars == <<futures, legal_doc, store_in_progress, appended_by>>

idVars == <<id_records, doc_ids>>

buildVars == <<build_text, build_fails, built, built_stored>>

auxVars == <<readVars, poolVars, idVars, buildVars>>

unitVars == <<textVars, classifyVars, embedVars, runVars, auxVars>>

(***************************************************************************)
(* Bounds of the model.  FlushEvery and batch_size stand for the source's  *)
(* 1000 (line 1046) and 100 (line 1031), scaled down so that a run of a    *)
(* handful of records crosses the checkpoint threshold; FlushEvery stays a *)
(* multiple of batch_size as in the source.                                *)
(***************************************************************************)
FlushEvery == 4
batch_size == 2
MaxRecords == 6
MaxFaults == 1
MaxTextLen == 7
MaxChunkSize == 3
MaxSeed == 1
MaxFieldLen == 3
MaxPhrases == 2
MaxTexts == 65
MaxOverBudget == 12
MaxFiles == 2
max_workers == 2
MaxBuildLen == 4
HashBits == 12

None == [present |-> FALSE]
Some(v) == [present |-> TRUE, val |-> v]

Min(a, b) == IF a < b THEN a ELSE b
Max(a, b) == IF a > b THEN a ELSE b

RECURSIVE Pow2(_)
Pow2(n) == IF n = 0 THEN 1 ELSE 2 * Pow2(n - 1)

(***************************************************************************)
(* Python list slicing xs[-n:] for n > 0: the last min(n, len) elements.   *)
(***************************************************************************)
LastN(xs, n) == SubSeq(xs, Max(1, Len(xs) - n + 1), Len(xs))

(***************************************************************************)
(* Text helpers: Python's str.strip, str.split and the character classes   *)
(* of the re module, over sequences of one-character strings.              *)
(***************************************************************************)
Whitespace == {" ", "\n", "\t"}

IsBlank(s) == \A k \in 1..Len(s) : s[k] \in Whitespace

\* str.strip(): drop leading and trailing whitespace
Strip(s) ==
    IF IsBlank(s) THEN <<>>
    ELSE LET lo == CHOOSE k \in 1..Len(s) :
                      s[k] \notin Whitespace /\ \A j \in 1..(k - 1) : s[j] \in Whitespace
             hi == CHOOSE k \in 1..Len(s) :
                      s[k] \notin Whitespace /\ \A j \in (k + 1)..Len(s) : s[j] \in Whitespace
         IN  SubSeq(s, lo, hi)

\* the text without its whitespace characters
RECURSIVE NonWhitespace(_)
NonWhitespace(s) ==
    IF s = <<>> THEN <<>>
    ELSE IF Head(s) \in Whitespace THEN NonWhitespace(Tail(s))
    ELSE <<Head(s)>> \o NonWhitespace(Tail(s))

RECURSIVE Concat(_)
Concat(ss) == IF ss = <<>> THEN <<>> ELSE Head(ss) \o Concat(Tail(ss))

\* text.split('\n\n'): cut at each non-overlapping "\n\n", scanning left to right
RECURSIVE SplitBlankLine(_, _)
SplitBlankLine(s, acc) ==
    IF s = <<>> THEN <<acc>>
    ELSE IF Len(s) >= 2 /\ s[1] = "\n" /\ s[2] = "\n"
         THEN <<acc>> \o SplitBlankLine(SubSeq(s, 3, Len(s)), <<>>)
    ELSE SplitBlankLine(Tail(s), Append(acc, Head(s)))

(***************************************************************************)
(* nltk.tokenize.sent_tokenize (external): a sentence ends at a            *)
(* terminator that is followed by whitespace; the whitespace between two   *)
(* sentences belongs to neither; no character of a sentence is changed.    *)
(***************************************************************************)
SentenceEnd == {".", "!", "?"}

RECURSIVE SentSplit(_, _)
SentSplit(s, acc) ==
    IF s = <<>> THEN (IF Strip(acc) = <<>> THEN <<>> ELSE <<Strip(acc)>>)
    ELSE IF Head(s) \in SentenceEnd /\ Len(s) >= 2 /\ s[2] \in Whitespace
         THEN <<Strip(Append(acc, Head(s)))>> \o SentSplit(Tail(s), <<>>)
    ELSE SentSplit(Tail(s), Append(acc, Head(s)))

sent_tokenize(paragraph) == SentSplit(paragraph, <<>>)

(***************************************************************************)
(* chunk_legal_document: the loop state is <<chunks, current_chunk>>.      *)
(***************************************************************************)
\* mutant of ChunkSentences: a sentence longer than max is dropped
RECURSIVE ChunkSentencesDropOversized(_, _, _, _)
ChunkSentencesDropOversized(sentences, chunks_, current_chunk, max) ==
    IF sentences = <<>> THEN <<chunks_, current_chunk>>
    ELSE LET sentence == Head(sentences) IN
         IF Len(current_chunk) + Len(sentence) > max
         THEN IF current_chunk # <<>>
              THEN ChunkSentencesDropOversized(Tail(sentences),
                       Append(chunks_, Strip(current_chunk)), sentence, max)
              ELSE ChunkSentencesDropOversized(Tail(sentences),
                       chunks_, current_chunk, max)
         ELSE ChunkSentencesDropOversized(Tail(sentences), chunks_,
                  current_chunk \o <<" ">> \o sentence, max)

\* lines 657-665: the sentence loop of an over-long paragraph
RECURSIVE ChunkSentences(_, _, _, _)
ChunkSentences(sentences, chunks_, current_chunk, max) ==
    IF sentences = <<>> THEN <<chunks_, current_chunk>>
    ELSE LET sentence == Head(sentences) IN
         IF Len(current_chunk) + Len(sentence) > max
         THEN IF current_chunk # <<>>
              THEN ChunkSentences(Tail(sentences),
                                  Append(chunks_, Strip(current_chunk)), sentence, max)
              ELSE ChunkSentences(Tail(sentences),
                                  Append(chunks_, sentence), current_chunk, max)
         ELSE ChunkSentences(Tail(sentences), chunks_,
                             current_chunk \o <<" ">> \o sentence, max)

\* lines 644-667: the paragraph loop
RECURSIVE ChunkParagraphs(_, _, _, _)
ChunkParagraphs(paragraphs, chunks_, current_chunk, max) ==
    IF paragraphs = <<>> THEN <<chunks_, current_chunk>>
    ELSE LET paragraph == Strip(Head(paragraphs)) IN
         IF paragraph = <<>>
         THEN ChunkParagraphs(Tail(paragraphs), chunks_, current_chunk, max)
         ELSE IF Len(current_chunk) + Len(paragraph) > max
         THEN IF current_chunk # <<>>
              THEN ChunkParagraphs(Tail(paragraphs),
                                   Append(chunks_, Strip(current_chunk)), paragraph, max)
              ELSE LET r == ChunkSentences(sent_tokenize(paragraph),
                                           chunks_, current_chunk, max)
                   IN  ChunkParagraphs(Tail(paragraphs), r[1], r[2], max)
         ELSE ChunkParagraphs(Tail(paragraphs), chunks_,
                              current_chunk \o <<"\n", "\n">> \o paragraph, max)

chunk_legal_document(t, max) ==
    LET r == ChunkParagraphs(SplitBlankLine(t, <<>>), <<>>, <<>>, max)
    IN  IF r[2] # <<>> THEN Append(r[1], Strip(r[2])) ELSE r[1]

\* every sentence sent_tokenize finds in a paragraph of the text
SentencesOf(t) ==
    LET paras == SplitBlankLine(t, <<>>)
    IN  UNION { LET ss == sent_tokenize(Strip(paras[k]))
                IN  {ss[j] : j \in 1..Len(ss)} : k \in 1..Len(paras) }

(***************************************************************************)
(* Results of calls that may raise: Ok(v) or Raise(e).                     *)
(***************************************************************************)
Ok(v) == [ok |-> TRUE, val |-> v]
Raise(e) == [ok |-> FALSE, err |-> e]

(***************************************************************************)
(* The re module, as far as clean_text and sanitize_text_input use it.     *)
(***************************************************************************)
\* re.sub(r'\s+', ' ', s): every maximal run of whitespace becomes one space
RECURSIVE CollapseWhitespace(_)
CollapseWhitespace(s) ==
    IF s = <<>> THEN <<>>
    ELSE IF Head(s) \in Whitespace
         THEN IF Len(s) >= 2 /\ s[2] \in Whitespace
              THEN CollapseWhitespace(Tail(s))
              ELSE <<" ">> \o CollapseWhitespace(Tail(s))
    ELSE <<Head(s)>> \o CollapseWhitespace(Tail(s))

\* re.sub(r'[.]{3,}', '...', s): a run of three or more periods becomes three
RECURSIVE CapPeriods(_, _)
CapPeriods(s, run) ==
    IF s = <<>> THEN <<>>
    ELSE IF Head(s) = "."
         THEN IF run >= 3 THEN CapPeriods(Tail(s), run + 1)
              ELSE <<".">> \o CapPeriods(Tail(s), run + 1)
    ELSE <<Head(s)>> \o CapPeriods(Tail(s), 0)

\* sre_parse on a pattern that is one character set: after "[" the set needs
\* at least one member before the "]" that closes it, so "[]" is an
\* unterminated character set ("]" right after "[" is a member)
CharSetCompiles(pattern) ==
    /\ Len(pattern) >= 3
    /\ pattern[1] = "["
    /\ pattern[Len(pattern)] = "]"

\* re.sub(pattern, repl, s) for a one-character-set pattern
re_sub_set(pattern, repl, s) ==
    IF ~CharSetCompiles(pattern) THEN Raise("re.error")
    ELSE LET members == {pattern[k] : k \in 2..(Len(pattern) - 1)}
         IN  Ok([k \in 1..Len(s) |-> IF s[k] \in members THEN repl ELSE s[k]])

\* BeautifulSoup(text, 'html.parser').get_text() (external): the text
\* outside the tags; a "<" that no ">" closes is text
RECURSIVE get_text(_, _)
get_text(s, in_tag) ==
    IF s = <<>> THEN <<>>
    ELSE IF in_tag
         THEN get_text(Tail(s), Head(s) # ">")
    ELSE IF Head(s) = "<" /\ \E k \in 2..Len(s) : s[k] = ">"
         THEN get_text(Tail(s), TRUE)
    ELSE <<Head(s)>> \o get_text(Tail(s), FALSE)

Contains(s, c) == \E k \in 1..Len(s) : s[k] = c

\* the two patterns of lines 854 and 855 as Python reads them: r'[""]' is
\* the four characters [ " " ] and r'['']' is r'[' followed by ']', that is
\* the two characters [ ]
QuotePattern854 == <<"[", "\"", "\"", "]">>
QuotePattern855 == <<"[", "]">>

clean_text(t) ==
    IF t = <<>> THEN Ok(<<>>)
    ELSE LET t1 == IF Contains(t, "<") /\ Contains(t, ">") THEN get_text(t, FALSE) ELSE t
             t2 == CollapseWhitespace(t1)   \* line 848 finds no "\n" after line 847
             t3 == CapPeriods(t2, 0)
             r4 == re_sub_set(QuotePattern854, "\"", t3)
         IN  IF ~r4.ok THEN r4
             ELSE LET r5 == re_sub_set(QuotePattern855, "'", r4.val)
                  IN  IF ~r5.ok THEN r5 ELSE Ok(Strip(r5.val))

(***************************************************************************)
(* sanitize_text_input (lines 859-886)                                     *)
(***************************************************************************)
\* \w: letters, digits and the underscore
WordChars == {"a", "b", "c", "d", "e", "f", "g", "h", "i", "j", "k", "l",
    "m", "n", "o", "p", "q", "r", "s", "t", "u", "v", "w", "x", "y", "z",
    "A", "B", "C", "D", "E", "F", "G", "H", "I", "J", "K", "L", "M", "N",
    "O", "P", "Q", "R", "S", "T", "U", "V", "W", "X", "Y", "Z", "0", "1",
    "2", "3", "4", "5", "6", "7", "8", "9", "_"}
AllowedPunctuation == {"-", ".", ",", ":", ";", "(", ")", "'", "\"", "/",
                       "&", "%", "#", "@", "!"}

ReplaceMeta(c) ==
    CASE c \in {"[", "{"} -> "("
      [] c \in {"]", "}"} -> ")"
      [] c = "\\" -> "/"
      [] c = "|" -> "-"
      [] c \in {"^", "$", "*", "+", "?"} -> " "
      [] OTHER -> c

AllowListed(c) ==
    IF c \in WordChars \cup Whitespace \cup AllowedPunctuation THEN c ELSE " "

\* the pattern metacharacters lines 870-878 replace
MetaCharacters == {"[", "]", "{", "}", "\\", "|", "^", "$", "*", "+", "?"}

\* mutant of sanitize_text_input: whitespace is normalised before the
\* characters are replaced instead of after
SanitizeNormalizeFirst(t) ==
    IF t = <<>> THEN <<>>
    ELSE LET normalized == Strip(CollapseWhitespace(t))
             replaced == [k \in 1..Len(normalized) |-> ReplaceMeta(normalized[k])]
         IN  [k \in 1..Len(normalized) |-> AllowListed(replaced[k])]

sanitize_text_input(t) ==
    IF t = <<>> THEN <<>>
    ELSE LET replaced == [k \in 1..Len(t) |-> ReplaceMeta(t[k])]
             allowed == [k \in 1..Len(t) |-> AllowListed(replaced[k])]
         IN  Strip(CollapseWhitespace(allowed))

(***************************************************************************)
(* optimize_for_deepseek_r1 (lines 674-706).  The tokenizer is external:   *)
(* encode yields one token per character and decode is its inverse.        *)
(***************************************************************************)
max_tokens == 32000

TruncationMarker ==
    <<"\n", "\n", "[", ".", ".", ".", " ", "C", "O", "N", "T", "E", "N",
      "T", " ", "T", "R", "U", "N", "C", "A", "T", "E", "D", " ", "F", "O",
      "R", " ", "D", "E", "E", "P", "S", "E", "E", "K", " ", "R", "1", " ",
      "O", "P", "T", "I", "M", "I", "Z", "A", "T", "I", "O", "N", " ", ".",
      ".", ".", "]", "\n", "\n">>

\* deepseek_tokenizer.encode and decode
Encode(t) == [k \in 1..Len(t) |-> [token |-> t[k]]]
Decode(tokens) == [k \in 1..Len(tokens) |-> tokens[k].token]

\* mutant of optimize_for_deepseek_r1: a text over the budget is cut to its
\* first max_tokens tokens
OptimizeKeepHead(t, has_tokenizer) ==
    IF ~has_tokenizer THEN t
    ELSE LET tokens == Encode(t)
         IN  IF Len(tokens) <= max_tokens THEN t
             ELSE Decode(SubSeq(tokens, 1, max_tokens))

optimize_for_deepseek_r1(t, has_tokenizer) ==
    IF ~has_tokenizer THEN t
    ELSE LET tokens == Encode(t)
             keep_start == max_tokens \div 3
             keep_end == max_tokens \div 3
         IN  IF Len(tokens) <= max_tokens THEN t
             ELSE LET start_tokens == SubSeq(tokens, 1, keep_start)
                      end_tokens == SubSeq(tokens, Len(tokens) - keep_end + 1,
                                           Len(tokens))
                      optimized_text == Decode(start_tokens \o end_tokens)
                      seam == Len(Decode(start_tokens))
                  IN  SubSeq(optimized_text, 1, seam) \o TruncationMarker
                      \o SubSeq(optimized_text, seam + 1, Len(optimized_text))

(***************************************************************************)
(* generate_embeddings (lines 708-738).  The embedding model is external:  *)
(* the vector of a text is VectorOf(text); fail_batch = 0 when every       *)
(* encode call succeeds, and k when the k-th call raises.                  *)
(***************************************************************************)
embed_batch_size == 32

VectorOf(t) == [vector_of |-> t]

\* np.mean(chunk_embeddings, axis=0)
MeanOf(vectors) == [mean_of |-> vectors]

NumBatches(n, size) == (n + size - 1) \div size

\* mutant of EncodeBatches: a failed encode call returns the vectors of the
\* batches before it
RECURSIVE EncodeBatchesKeepPartial(_, _, _, _)
EncodeBatchesKeepPartial(texts, start, embeddings, fail_batch) ==
    IF start >= Len(texts) THEN [embeddings |-> embeddings, errors |-> 0]
    ELSE IF fail_batch = (start \div embed_batch_size) + 1
         THEN [embeddings |-> embeddings, errors |-> 1]
    ELSE LET batch == SubSeq(texts, start + 1, Min(start + embed_batch_size, Len(texts)))
         IN  EncodeBatchesKeepPartial(texts, start + embed_batch_size,
                 embeddings \o [k \in 1..Len(batch) |-> VectorOf(batch[k])],
                 fail_batch)

\* lines 719-738: the loop `for i in range(0, len(texts), batch_size)` from
\* offset start on, embeddings being the list extended so far; an exception
\* of encode is caught by the handler of line 735, which increments the
\* error counter and returns []
RECURSIVE EncodeBatches(_, _, _, _)
EncodeBatches(texts, start, embeddings, fail_batch) ==
    IF start >= Len(texts) THEN [embeddings |-> embeddings, errors |-> 0]
    ELSE IF fail_batch = (start \div embed_batch_size) + 1
         THEN [embeddings |-> <<>>, errors |-> 1]
    ELSE LET batch == SubSeq(texts, start + 1, Min(start + embed_batch_size, Len(texts)))
         IN  EncodeBatches(texts, start + embed_batch_size,
                 embeddings \o [k \in 1..Len(batch) |-> VectorOf(batch[k])],
                 fail_batch)

generate_embeddings(texts, fail_batch) ==
    IF texts = <<>> THEN [embeddings |-> <<>>, errors |-> 0]
    ELSE EncodeBatches(texts, 0, <<>>, fail_batch)

\* dict.get(key, default)
Get(doc_data, key, default) ==
    IF key \in DOMAIN doc_data THEN doc_data[key] ELSE default

(***************************************************************************)
(* Classification: initialize_legal_patterns (lines 296-348),              *)
(* extract_legal_metadata (lines 541-620) and the court-row adapter        *)
(* (lines 1181-1258).  An authority weight is held in tenths: 10 is 1.0    *)
(* and 1 is 0.1.                                                           *)
(***************************************************************************)
UpperCase == <<"A", "B", "C", "D", "E", "F", "G", "H", "I", "J", "K", "L", "M",
               "N", "O", "P", "Q", "R", "S", "T", "U", "V", "W", "X", "Y", "Z">>
LowerCase == <<"a", "b", "c", "d", "e", "f", "g", "h", "i", "j", "k", "l", "m",
               "n", "o", "p", "q", "r", "s", "t", "u", "v", "w", "x", "y", "z">>
DigitChars == {"0", "1", "2", "3", "4", "5", "6", "7", "8", "9"}

LowerChar(c) ==
    IF \E k \in 1..Len(UpperCase) : UpperCase[k] = c
    THEN LowerCase[CHOOSE k \in 1..Len(UpperCase) : UpperCase[k] = c]
    ELSE c

\* str.lower()
Lower(s) == [k \in 1..Len(s) |-> LowerChar(s[k])]

\* s[pos:].startswith(term)
StartsAt(term, s, pos) ==
    /\ pos + Len(term) - 1 <= Len(s)
    /\ \A k \in 1..Len(term) : s[pos + k - 1] = term[k]

\* `term in s`
IsSubstring(term, s) == \E pos \in 1..(Len(s) + 1) : StartsAt(term, s, pos)

\* any(term in s for term in terms)
AnyTermIn(terms, s) == \E term \in terms : IsSubstring(term, s)

\* self.court_hierarchy, lines 300-307
court_hierarchy ==
    [supreme |-> 10, appellate |-> 8, district |-> 6, administrative |-> 4,
     municipal |-> 2, unknown |-> 1]

\* self.court_hierarchy.get(court_level, 0.1)
AuthorityWeightOf(court_level) ==
    IF court_level \in DOMAIN court_hierarchy THEN court_hierarchy[court_level] ELSE 1

\* the terms of lines 562-568

SupremeTerms ==
    {<<"s", "u", "p", "r", "e", "m", "e", " ", "c", "o", "u", "r", "t">>,
     <<"s", "c", "o", "t", "u", "s">>}
AppellateTerms ==
    {<<"c", "o", "u", "r", "t", " ", "o", "f", " ", "a", "p", "p", "e", "a", "l", "s">>,
     <<"a", "p", "p", "e", "l", "l", "a", "t", "e">>,
     <<"c", "i", "r", "c", "u", "i", "t">>}
DistrictTerms ==
    {<<"d", "i", "s", "t", "r", "i", "c", "t", " ", "c", "o", "u", "r", "t">>,
     <<"t", "r", "i", "a", "l", " ", "c", "o", "u", "r", "t">>}
AdministrativeTerms ==
    {<<"a", "d", "m", "i", "n", "i", "s", "t", "r", "a", "t", "i", "v", "e">>,
     <<"a", "g", "e", "n", "c", "y">>}

\* the terms of lines 572-576
FederalTerms ==
    {<<"u", "n", "i", "t", "e", "d", " ", "s", "t", "a", "t", "e", "s">>,
     <<"f", "e", "d", "e", "r", "a", "l">>, <<"u", ".", "s", ".">>}
StateTerms ==
    {<<"s", "t", "a", "t", "e">>,
     <<"c", "o", "m", "m", "o", "n", "w", "e", "a", "l", "t", "h">>}
LocalTerms ==
    {<<"m", "u", "n", "i", "c", "i", "p", "a", "l">>, <<"c", "i", "t", "y">>,
     <<"c", "o", "u", "n", "t", "y">>}

\* self.legal_area_patterns, lines 310-335: each pattern is the sequence of
\* its words, which the pattern joins with \s+
legal_area_patterns ==
    [constitutional |->
         {<< <<"c", "o", "n", "s", "t", "i", "t", "u", "t", "i", "o", "n", "a", "l">>, <<"l", "a", "w">> >>,
          << <<"f", "i", "r", "s", "t">>, <<"a", "m", "e", "n", "d", "m", "e", "n", "t">> >>,
          << <<"f", "o", "u", "r", "t", "e", "e", "n", "t", "h">>, <<"a", "m", "e", "n", "d", "m", "e", "n", "t">> >>,
          << <<"d", "u", "e">>, <<"p", "r", "o", "c", "e", "s", "s">> >>,
          << <<"e", "q", "u", "a", "l">>, <<"p", "r", "o", "t", "e", "c", "t", "i", "o", "n">> >>,
          << <<"b", "i", "l", "l">>, <<"o", "f">>, <<"r", "i", "g", "h", "t", "s">> >>},
     contract |->
         {<< <<"c", "o", "n", "t", "r", "a", "c", "t">>, <<"l", "a", "w">> >>,
          << <<"b", "r", "e", "a", "c", "h">>, <<"o", "f">>, <<"c", "o", "n", "t", "r", "a", "c", "t">> >>,
          << <<"c", "o", "n", "s", "i", "d", "e", "r", "a", "t", "i", "o", "n">> >>,
          << <<"o", "f", "f", "e", "r">>, <<"a", "n", "d">>, <<"a", "c", "c", "e", "p", "t", "a", "n", "c", "e">> >>,
          << <<"c", "o", "n", "t", "r", "a", "c", "t", "u", "a", "l">>, <<"o", "b", "l", "i", "g", "a", "t", "i", "o", "n">> >>},
     tort |->
         {<< <<"t", "o", "r", "t">>, <<"l", "a", "w">> >>,
          << <<"n", "e", "g", "l", "i", "g", "e", "n", "c", "e">> >>,
          << <<"p", "e", "r", "s", "o", "n", "a", "l">>, <<"i", "n", "j", "u", "r", "y">> >>,
          << <<"d", "e", "f", "a", "m", "a", "t", "i", "o", "n">> >>,
          << <<"i", "n", "t", "e", "n", "t", "i", "o", "n", "a", "l">>, <<"t", "o", "r", "t">> >>,
          << <<"s", "t", "r", "i", "c", "t">>, <<"l", "i", "a", "b", "i", "l", "i", "t", "y">> >>},
     criminal |->
         {<< <<"c", "r", "i", "m", "i", "n", "a", "l">>, <<"l", "a", "w">> >>,
          << <<"c", "r", "i", "m", "i", "n", "a", "l">>, <<"p", "r", "o", "c", "e", "d", "u", "r", "e">> >>,
          << <<"e", "v", "i", "d", "e", "n", "c", "e">> >>,
          << <<"s", "e", "n", "t", "e", "n", "c", "i", "n", "g">> >>,
          << <<"f", "o", "u", "r", "t", "h">>, <<"a", "m", "e", "n", "d", "m", "e", "n", "t">> >>},
     corporate |->
         {<< <<"c", "o", "r", "p", "o", "r", "a", "t", "e">>, <<"l", "a", "w">> >>,
          << <<"s", "e", "c", "u", "r", "i", "t", "i", "e", "s">> >>,
          << <<"m", "e", "r", "g", "e", "r", "s">>, <<"a", "n", "d">>, <<"a", "c", "q", "u", "i", "s", "i", "t", "i", "o", "n", "s">> >>,
          << <<"c", "o", "r", "p", "o", "r", "a", "t", "e">>, <<"g", "o", "v", "e", "r", "n", "a", "n", "c", "e">> >>,
          << <<"f", "i", "d", "u", "c", "i", "a", "r", "y">>, <<"d", "u", "t", "y">> >>},
     property |->
         {<< <<"p", "r", "o", "p", "e", "r", "t", "y">>, <<"l", "a", "w">> >>,
          << <<"r", "e", "a", "l">>, <<"e", "s", "t", "a", "t", "e">> >>,
          << <<"i", "n", "t", "e", "l", "l", "e", "c", "t", "u", "a", "l">>, <<"p", "r", "o", "p", "e", "r", "t", "y">> >>,
          << <<"t", "r", "a", "d", "e", "m", "a", "r", "k">> >>,
          << <<"c", "o", "p", "y", "r", "i", "g", "h", "t">> >>,
          << <<"p", "a", "t", "e", "n", "t">> >>}]

\* the number of characters from pos on that are in class
RunLen(s, pos, class) ==
    CHOOSE n \in 0..(Len(s) - pos + 1) :
        /\ \A k \in pos..(pos + n - 1) : s[k] \in class
        /\ pos + n <= Len(s) => s[pos + n] \notin class

\* the words match from pos on, one or more whitespace characters between
\* two words
RECURSIVE MatchWords(_, _, _)
MatchWords(words, s, pos) ==
    /\ StartsAt(Head(words), s, pos)
    /\ Len(words) > 1 =>
          LET after == pos + Len(Head(words))
              gap == RunLen(s, after, Whitespace)
          IN  gap > 0 /\ MatchWords(Tail(words), s, after + gap)

\* re.search(pattern, s) for a pattern of words joined with \s+
SearchWords(words, s) == \E pos \in 1..Len(s) : MatchWords(words, s, pos)

\* self.citation_patterns, lines 338-344, compiled with re.IGNORECASE: a
\* pattern is a sequence of elements, \d+ ("digits"), \s+ ("space"), literal
\* text ("lit", compared without regard to case), and for [A-Z][a-z]*,
\* which under IGNORECASE is any letter followed by letters, "letters"
Digits1 == [kind |-> "digits", s |-> <<>>]
Space1 == [kind |-> "space", s |-> <<>>]
Letters1 == [kind |-> "letters", s |-> <<>>]
Lit(s) == [kind |-> "lit", s |-> s]

citation_patterns ==
    << <<Digits1, Space1, Lit(<<"u", ".", "s", ".">>), Space1, Digits1>>,
       <<Digits1, Space1, Lit(<<"s", ".">>), Space1, Lit(<<"c", "t", ".">>),
         Space1, Digits1>>,
       <<Digits1, Space1, Lit(<<"f", ".">>), Digits1, Lit(<<"d">>), Space1, Digits1>>,
       <<Digits1, Space1, Lit(<<"f", ".">>), Space1,
         Lit(<<"s", "u", "p", "p", ".">>), Space1, Digits1>>,
       <<Digits1, Space1, Letters1, Space1, Digits1>> >>

Letters == {LowerCase[k] : k \in 1..Len(LowerCase)}

\* where a match of the elements that starts at pos ends (the position after
\* its last character), 0 when there is none; each element of these
\* patterns is followed by one of another character class, so the longest
\* run is the only one that can match
RECURSIVE MatchElems(_, _, _)
MatchElems(elems, s, pos) ==
    IF elems = <<>> THEN pos
    ELSE LET e == Head(elems)
             n == CASE e.kind = "digits" -> RunLen(s, pos, DigitChars)
                    [] e.kind = "space" -> RunLen(s, pos, Whitespace)
                    [] e.kind = "letters" -> RunLen(Lower(s), pos, Letters)
                    [] e.kind = "lit" ->
                         IF StartsAt(e.s, Lower(s), pos) THEN Len(e.s) ELSE 0
         IN  IF n = 0 THEN 0 ELSE MatchElems(Tail(elems), s, pos + n)

\* pattern.findall(s): the matches found scanning from the left, a search
\* resuming where the last match ended
RECURSIVE FindAll(_, _, _)
FindAll(elems, s, pos) ==
    IF pos > Len(s) THEN {}
    ELSE LET end == MatchElems(elems, s, pos)
         IN  IF end = 0 THEN FindAll(elems, s, pos + 1)
             ELSE {SubSeq(s, pos, end - 1)} \cup FindAll(elems, s, end)

\* lines 543-551
DefaultMetadata ==
    [court_level |-> "unknown", jurisdiction |-> "unknown", legal_areas |-> {},
     authority_weight |-> 1, citations_extracted |-> {}]

\* mutant of CourtLevelOfText: the district rule is tried before the
\* appellate rule
CourtLevelDistrictFirst(text_lower) ==
    IF AnyTermIn(SupremeTerms, text_lower) THEN "supreme"
    ELSE IF AnyTermIn(DistrictTerms, text_lower) THEN "district"
    ELSE IF AnyTermIn(AppellateTerms, text_lower) THEN "appellate"
    ELSE IF AnyTermIn(AdministrativeTerms, text_lower) THEN "administrative"
    ELSE "unknown"

\* lines 562-569
CourtLevelOfText(text_lower) ==
    IF AnyTermIn(SupremeTerms, text_lower) THEN "supreme"
    ELSE IF AnyTermIn(AppellateTerms, text_lower) THEN "appellate"
    ELSE IF AnyTermIn(DistrictTerms, text_lower) THEN "district"
    ELSE IF AnyTermIn(AdministrativeTerms, text_lower) THEN "administrative"
    ELSE "unknown"

\* lines 572-577
JurisdictionOfText(text_lower) ==
    IF AnyTermIn(FederalTerms, text_lower) THEN "federal"
    ELSE IF AnyTermIn(StateTerms, text_lower) THEN "state"
    ELSE IF AnyTermIn(LocalTerms, text_lower) THEN "local"
    ELSE "unknown"

extract_legal_metadata(t) ==
    IF t = <<>> THEN DefaultMetadata
    ELSE LET text_lower == Lower(t)
             court_level == CourtLevelOfText(text_lower)
         IN  [court_level |-> court_level,
              jurisdiction |-> JurisdictionOfText(text_lower),
              legal_areas |->
                  {area \in DOMAIN legal_area_patterns :
                      \E words \in legal_area_patterns[area] :
                          SearchWords(words, text_lower)},
              authority_weight |-> AuthorityWeightOf(court_level),
              citations_extracted |->
                  UNION {FindAll(citation_patterns[k], t, 1) :
                            k \in 1..Len(citation_patterns)}]

\* determine_court_level, lines 1232-1244
determine_court_level(court_name) ==
    LET court_name_lower == Lower(court_name) IN
    IF IsSubstring(<<"s", "u", "p", "r", "e", "m", "e">>, court_name_lower)
    THEN "supreme"
    ELSE IF AnyTermIn({<<"a", "p", "p", "e", "a", "l">>,
                       <<"a", "p", "p", "e", "l", "l", "a", "t", "e">>,
                       <<"c", "i", "r", "c", "u", "i", "t">>}, court_name_lower)
    THEN "appellate"
    ELSE IF AnyTermIn({<<"d", "i", "s", "t", "r", "i", "c", "t">>,
                       <<"t", "r", "i", "a", "l">>,
                       <<"s", "u", "p", "e", "r", "i", "o", "r">>}, court_name_lower)
    THEN "district"
    ELSE "unknown"

\* calculate_court_authority_weight, lines 1246-1258
calculate_court_authority_weight(court_name) ==
    LET weights == [supreme |-> 10, appellate |-> 8, district |-> 6, unknown |-> 3]
        court_level == determine_court_level(court_name)
    IN  IF court_level \in DOMAIN weights THEN weights[court_level] ELSE 3

UnknownCourt == <<"U", "n", "k", "n", "o", "w", "n", " ", "C", "o", "u", "r", "t">>
UnknownJurisdiction == <<"u", "n", "k", "n", "o", "w", "n">>

\* convert_court_row_to_document, lines 1181-1205 (id and url, which the
\* classification never reads, are left out)
convert_court_row_to_document(row) ==
    LET full_name == sanitize_text_input(Get(row, "full_name", UnknownCourt))
        jurisdiction == sanitize_text_input(Get(row, "jurisdiction", UnknownJurisdiction))
    IN  [case_name |-> <<"C", "o", "u", "r", "t", " ", "I", "n", "f", "o", "r", "m", "a", "t", "i", "o", "n", ":", " ">> \o full_name,
         court |-> full_name,
         court_level |-> determine_court_level(full_name),
         jurisdiction |-> jurisdiction,
         plain_text |-> <<"T", "h", "i", "s", " ", "i", "s", " ">> \o full_name
                        \o <<" ", "i", "n", " ">> \o jurisdiction \o <<".">>,
         legal_areas |-> {"court_administration"},
         authority_weight |-> calculate_court_authority_weight(full_name)]

UnknownOpinion == <<"U", "n", "k", "n", "o", "w", "n">>

\* convert_citation_row_to_document, lines 1207-1230 (the f-strings of
\* case_name and full_text, which the classification never reads, are cut
\* to their variable parts)
convert_citation_row_to_document(row) ==
    LET citing_opinion == sanitize_text_input(Get(row, "citing_opinion", UnknownOpinion))
        cited_opinion == sanitize_text_input(Get(row, "cited_opinion", UnknownOpinion))
        citation_id == sanitize_text_input(Get(row, "id", <<>>))
    IN  [id |-> <<"c", "i", "t", "a", "t", "i", "o", "n", "_">> \o citation_id,
         case_name |-> citing_opinion \o <<" ">> \o cited_opinion,
         court |-> <<"C", "i", "t", "a", "t", "i", "o", "n", " ", "D", "a", "t", "a", "b", "a", "s", "e">>,
         court_level |-> "database",
         jurisdiction |-> "multi_jurisdiction",
         plain_text |-> <<"T", "h", "i", "s", " ", "c", "i", "t", "a", "t", "i", "o", "n", " ",
                          "l", "i", "n", "k", "s", " ", "o", "p", "i", "n", "i", "o", "n", " ">>
                        \o citing_opinion \o <<" ", "t", "o", " ">> \o cited_opinion \o <<".">>,
         legal_areas |-> {"citation_analysis"},
         authority_weight |-> 5,
         citations_extracted |-> {cited_opinion}]

\* convert_csv_row_to_document, lines 1164-1179: the adapter is chosen by
\* the dataset the path of the file names
convert_csv_row_to_document(row, dataset) ==
    IF dataset = "courts" THEN convert_court_row_to_document(row)
    ELSE IF dataset = "citations" THEN convert_citation_row_to_document(row)
    ELSE row

(***************************************************************************)
(* process_legal_document (lines 740-833).  A raw record is a function     *)
(* from field names to strings; NotADict is a record that is no mapping    *)
(* (a JSON array may hold any value).  The result is                       *)
(*   [outcome |-> "doc", doc |-> d, errors |-> n]  a LegalDocument,        *)
(*   [outcome |-> "none", errors |-> n]            None,                   *)
(*   [outcome |-> "raise", errors |-> n]           an exception escapes,   *)
(* errors being the increments of error_counter.                           *)
(***************************************************************************)
NotADict == [not_a_dict |-> TRUE]
IsDict(doc_data) == "not_a_dict" \notin DOMAIN doc_data

UnknownCase == <<"U", "n", "k", "n", "o", "w", "n", " ", "C", "a", "s", "e">>

\* hashlib.md5(s.encode()).hexdigest(): a digest that tells strings apart
Md5(s) == <<"#">> \o s

\* line 775: the id of the document with this case name and citation
DocIdOf(case_name, citation) == Md5(case_name \o <<"_">> \o citation)

\* lines 745-746: the sanitized (case_name, citation) of a raw record
SanitizedPairOf(doc_data) ==
    <<sanitize_text_input(Get(doc_data, "case_name", UnknownCase)),
      sanitize_text_input(Get(doc_data, "citation", <<>>))>>

default_max_chunk_size == 1000

\* mutant of LegalDocumentOf: the document-level embedding is left out
LegalDocumentNoMean(case_name, citation, full_text, metadata_, optimized_text, fail_batch) ==
    LET doc_id == DocIdOf(case_name, citation)
        chunks_ == chunk_legal_document(optimized_text, default_max_chunk_size)
        emb == generate_embeddings(chunks_, fail_batch)
        chunk_embeddings == IF chunks_ # <<>> THEN Some(emb.embeddings) ELSE None
    IN  [outcome |-> "doc",
         doc |-> [id |-> doc_id, case_name |-> case_name, citation |-> citation,
                  court_level |-> metadata_.court_level,
                  jurisdiction |-> metadata_.jurisdiction,
                  legal_areas |-> metadata_.legal_areas,
                  authority_weight |-> metadata_.authority_weight,
                  citations_extracted |-> metadata_.citations_extracted,
                  full_text |-> full_text, plain_text |-> optimized_text,
                  chunk_embeddings |-> chunk_embeddings, embedding |-> None],
         errors |-> emb.errors]

\* lines 774-804: the LegalDocument built from the cleaned record and the
\* metadata of lines 759-772
LegalDocumentOf(case_name, citation, full_text, metadata_, optimized_text, fail_batch) ==
    LET doc_id == DocIdOf(case_name, citation)
        chunks_ == chunk_legal_document(optimized_text, default_max_chunk_size)
        emb == generate_embeddings(chunks_, fail_batch)
        chunk_embeddings == IF chunks_ # <<>> THEN Some(emb.embeddings) ELSE None
        embedding == IF chunks_ # <<>> /\ emb.embeddings # <<>>
                     THEN Some(MeanOf(emb.embeddings)) ELSE None
    IN  [outcome |-> "doc",
         doc |-> [id |-> doc_id, case_name |-> case_name, citation |-> citation,
                  court_level |-> metadata_.court_level,
                  jurisdiction |-> metadata_.jurisdiction,
                  legal_areas |-> metadata_.legal_areas,
                  authority_weight |-> metadata_.authority_weight,
                  citations_extracted |-> metadata_.citations_extracted,
                  full_text |-> full_text, plain_text |-> optimized_text,
                  chunk_embeddings |-> chunk_embeddings, embedding |-> embedding],
         errors |-> emb.errors]

\* lines 764-772: the metadata process_legal_document goes on with when
\* extract_legal_metadata raises
FallbackMetadata ==
    [court_level |-> "unknown", jurisdiction |-> "unknown", legal_areas |-> {},
     authority_weight |-> 1, citations_extracted |-> {}]

\* metadata_raises: the call of line 760 raises
process_legal_document(doc_data, has_tokenizer, metadata_raises, fail_batch) ==
    IF ~IsDict(doc_data)
    THEN \* line 745 raises AttributeError, and so does line 811 in the handler
         [outcome |-> "raise", errors |-> 0]
    ELSE LET case_name == sanitize_text_input(Get(doc_data, "case_name", UnknownCase))
             citation == sanitize_text_input(Get(doc_data, "citation", <<>>))
             full_text == Get(doc_data, "plain_text", Get(doc_data, "html", <<>>))
         IN  IF full_text = <<>> THEN [outcome |-> "none", errors |-> 0]
             ELSE LET plain_text == clean_text(full_text) IN
                  IF ~plain_text.ok
                  THEN \* lines 809-833: logged, counted, None
                       [outcome |-> "none", errors |-> 1]
                  ELSE LegalDocumentOf(case_name, citation, full_text,
                           IF metadata_raises THEN FallbackMetadata
                           ELSE extract_legal_metadata(plain_text.val),
                           optimize_for_deepseek_r1(plain_text.val, has_tokenizer),
                           fail_batch)

(***************************************************************************)
(* The relational cache (lines 246-294, 954-1006).                         *)
(*   documents:  id is the PRIMARY KEY, so INSERT OR REPLACE deletes the   *)
(*               row with the same id before it inserts.                   *)
(*   embeddings: the table declares no PRIMARY KEY and no UNIQUE column,   *)
(*               so no insert ever conflicts and INSERT OR REPLACE is a    *)
(*               plain insert.                                             *)
(* A failed commit does not undo the rows: they stay in the connection's   *)
(* open transaction, which is what later statements on self.conn read.     *)
(***************************************************************************)
DocumentRow(doc) ==
    [id |-> doc.id, case_name |-> doc.case_name, citation |-> doc.citation,
     court_level |-> doc.court_level, jurisdiction |-> doc.jurisdiction,
     full_text |-> doc.full_text, plain_text |-> doc.plain_text]

insert_or_replace_document(rows, row) ==
    {r \in rows : r.id # row.id} \cup {row}

insert_or_replace_embedding(rows, row) == Append(rows, row)

\* lines 988-999: one embeddings row per chunk vector, chunk_id from 0
RECURSIVE InsertEmbeddings(_, _, _, _)
InsertEmbeddings(rows, doc_id, vectors, k) ==
    IF k > Len(vectors) THEN rows
    ELSE InsertEmbeddings(
             insert_or_replace_embedding(rows,
                 [document_id |-> doc_id, chunk_id |-> k - 1,
                  embedding |-> vectors[k]]),
             doc_id, vectors, k + 1)

\* `if doc.chunk_embeddings:` is false for None and for the empty list
HasChunkEmbeddings(doc) ==
    doc.chunk_embeddings.present /\ doc.chunk_embeddings.val # <<>>

\* lines 959-1003: the loop over legal_docs; fail_at is the position of the
\* document whose INSERT raises (0: none), which the handler of line 1001
\* logs and counts
RECURSIVE StoreDocs(_, _, _, _)
StoreDocs(db, legal_docs, k, fail_at) ==
    IF k > Len(legal_docs) THEN db
    ELSE LET doc == legal_docs[k] IN
         IF k = fail_at
         THEN StoreDocs([db EXCEPT !.errors = @ + 1], legal_docs, k + 1, fail_at)
         ELSE StoreDocs(
                  [db EXCEPT
                     !.documents = insert_or_replace_document(@, DocumentRow(doc)),
                     !.embeddings = IF HasChunkEmbeddings(doc)
                                    THEN InsertEmbeddings(@, doc.id,
                                             doc.chunk_embeddings.val, 1)
                                    ELSE @],
                  legal_docs, k + 1, fail_at)

\* store_in_sqlite: the tables after the call, the increments of
\* error_counter, and whether self.conn.commit() (line 1005, outside every
\* try) raised
store_in_sqlite(documents, embeddings, legal_docs, fail_at, commit_fails) ==
    LET db == StoreDocs([documents |-> documents, embeddings |-> embeddings,
                         errors |-> 0], legal_docs, 1, fail_at)
    IN  [documents |-> db.documents, embeddings |-> db.embeddings,
         errors |-> db.errors, raised |-> commit_fails]

\* lines 1268-1290: the counts of generate_quality_report, by aggregation
\* over the two tables: COUNT(*) of each table, and the documents grouped
\* by court_level and by jurisdiction
generate_quality_report(documents, embeddings) ==
    [total_documents_processed |-> Cardinality(documents),
     total_embeddings_generated |-> Len(embeddings),
     court_levels |->
         [level \in {r.court_level : r \in documents} |->
             Cardinality({r \in documents : r.court_level = level})],
     jurisdictions |->
         [j \in {r.jurisdiction : r \in documents} |->
             Cardinality({r \in documents : r.jurisdiction = j})]]

(***************************************************************************)
(* The similarity index (lines 888-952).                                   *)
(*                                                                         *)
(* hash() of a str is salted per process (PYTHONHASHSEED, random unless    *)
(* set): a signed value that depends on the seed and on the characters.    *)
(* The model's hash has HashBits bits.                                     *)
(***************************************************************************)
HashAlphabet ==
    <<"#", "_", "a", "b", "c", "h", "u", "n", "k", "0", "1", "2", "3", "4",
      "5", "6", "7", "8", "9">>

CharCode(c) == CHOOSE k \in 1..Len(HashAlphabet) : HashAlphabet[k] = c

\* the number of hash values, and the bound 2**63 of line 903 scaled to it
HashModulus == Pow2(HashBits)
PointIdModulus == Pow2(HashBits - 1)

RECURSIVE HashFold(_, _)
HashFold(h, s) ==
    IF s = <<>> THEN h
    ELSE HashFold((h * 33 + CharCode(Head(s))) % HashModulus, Tail(s))

\* the builtin hash(s) of a str, in the process whose seed is `seed`
PyHash(seed, s) ==
    LET h == HashFold((seed * 977 + 5381) % HashModulus, s)
    IN  IF h >= PointIdModulus THEN h - HashModulus ELSE h

\* hash(doc.id) % (2**63), line 903
DocPointId(seed, doc_id) == PyHash(seed, doc_id) % PointIdModulus

\* str(i) for a chunk index
Digits == <<"0", "1", "2", "3", "4", "5", "6", "7", "8", "9">>
Str(n) == <<Digits[n + 1]>>

\* hash(f"{doc.id}_chunk_{i}") % (2**63), line 927
ChunkPointId(seed, doc_id, k) ==
    PyHash(seed, doc_id \o <<"_", "c", "h", "u", "n", "k", "_">> \o Str(k))
        % PointIdModulus

\* lines 897-940: the points of one document, the document's first
PointsOfDoc(seed, doc) ==
    IF ~doc.embedding.present THEN <<>>
    ELSE <<[id |-> DocPointId(seed, doc.id), vector |-> doc.embedding.val,
            payload |-> [is_chunk |-> FALSE, document_id |-> doc.id,
                         chunk_index |-> 0]]>>
         \o (IF HasChunkEmbeddings(doc)
             THEN [k \in 1..Len(doc.chunk_embeddings.val) |->
                      [id |-> ChunkPointId(seed, doc.id, k - 1),
                       vector |-> doc.chunk_embeddings.val[k],
                       payload |-> [is_chunk |-> TRUE, document_id |-> doc.id,
                                    chunk_index |-> k - 1]]]
             ELSE <<>>)

RECURSIVE PointsOf(_, _)
PointsOf(seed, legal_docs) ==
    IF legal_docs = <<>> THEN <<>>
    ELSE PointsOfDoc(seed, Head(legal_docs)) \o PointsOf(seed, Tail(legal_docs))

\* qdrant_client.upsert (external): a point replaces the stored point that
\* has its id
RECURSIVE Upsert(_, _)
Upsert(stored, points) ==
    IF points = <<>> THEN stored
    ELSE Upsert({q \in stored : q.id # Head(points).id} \cup {Head(points)},
                Tail(points))

\* store_in_qdrant: the collection after the call and the increments of
\* error_counter; upsert_fails: the upsert call of line 945 raises
store_in_qdrant(stored, legal_docs, seed, client_available, upsert_fails) ==
    IF ~client_available THEN [points |-> stored, errors |-> 0, upserted |-> FALSE]
    ELSE LET points == PointsOf(seed, legal_docs) IN
         IF points = <<>> THEN [points |-> stored, errors |-> 0, upserted |-> FALSE]
         ELSE IF upsert_fails THEN [points |-> stored, errors |-> 1, upserted |-> FALSE]
         ELSE [points |-> Upsert(stored, points), errors |-> 0, upserted |-> TRUE]

(***************************************************************************)
(* The file readers (lines 1068-1162) and the choice of the reader by the  *)
(* file's extension (lines 1018-1028).  A file is its dataset name, its    *)
(* extension and its content; a JSON value is a record (an object),        *)
(* NotADict (a number, a string, an array inside an array) or InvalidJson  *)
(* (text that json.loads rejects).                                         *)
(***************************************************************************)
InvalidJson == [invalid_json |-> TRUE]
IsValidJson(v) == "invalid_json" \notin DOMAIN v

\* filter(keep, s) for the sequences of lines, members and rows
RECURSIVE ValidJsonOf(_)
ValidJsonOf(values) ==
    IF values = <<>> THEN <<>>
    ELSE IF IsValidJson(Head(values)) THEN <<Head(values)>> \o ValidJsonOf(Tail(values))
    ELSE ValidJsonOf(Tail(values))

\* process_tar_gz_file, lines 1068-1089: the members that are files named
\* *.json and hold valid JSON; a tar file that cannot be opened gives []
RECURSIVE JsonMembersOf(_)
JsonMembersOf(members) ==
    IF members = <<>> THEN <<>>
    ELSE IF Head(members).is_json_file /\ IsValidJson(Head(members).json)
         THEN <<Head(members).json>> \o JsonMembersOf(Tail(members))
    ELSE JsonMembersOf(Tail(members))

process_tar_gz_file(content) ==
    IF content.kind = "members" THEN JsonMembersOf(content.members) ELSE <<>>

\* process_json_gz_file, lines 1091-1108: one record per line of valid JSON
process_json_gz_file(content) ==
    IF content.kind = "lines" THEN ValidJsonOf(content.lines) ELSE <<>>

\* mutant of process_json_file: a top-level array is returned as one record
ProcessJsonFileWrapArray(content) ==
    IF content.kind = "array" THEN <<[array |-> content.items]>>
    ELSE IF content.kind = "object" THEN <<content.value>>
    ELSE <<>>

\* process_json_file, lines 1110-1127: "invalid" is a file that open or
\* json.load raises on
process_json_file(content) ==
    IF content.kind = "invalid" THEN <<>>
    ELSE IF content.kind = "array" THEN content.items
    ELSE IF content.kind = "object" THEN <<content.value>>
    ELSE <<>>

\* process_csv_bz2_file, lines 1129-1162: the rows converted, a falsy
\* conversion left out
RECURSIVE ConvertRows(_, _)
ConvertRows(rows, dataset) ==
    IF rows = <<>> THEN <<>>
    ELSE LET doc_data == convert_csv_row_to_document(Head(rows), dataset)
         IN  (IF DOMAIN doc_data # {} THEN <<doc_data>> ELSE <<>>)
             \o ConvertRows(Tail(rows), dataset)

process_csv_bz2_file(content, dataset) ==
    IF content.kind = "rows" THEN ConvertRows(content.rows, dataset) ELSE <<>>

\* lines 1018-1028: the records of a file, by the extension its path ends
\* with; a file of another type is skipped (`continue`)
DocsOfFile(file) ==
    IF file.ext = ".tar.gz" THEN process_tar_gz_file(file.content)
    ELSE IF file.ext = ".json.gz" THEN process_json_gz_file(file.content)
    ELSE IF file.ext = ".json" THEN process_json_file(file.content)
    ELSE IF file.ext = ".csv.bz2" THEN process_csv_bz2_file(file.content, file.dataset)
    ELSE <<>>

(***************************************************************************)
(* process_courtlistener_files (lines 1008-1066).                          *)
(*                                                                         *)
(* The workers' results are inputs of the loop.  Under the source as       *)
(* written clean_text raises on every non-empty text (QuotePattern855), so *)
(* process_legal_document itself returns None for every record with text   *)
(* (specification SpecDoc below); the loop is modelled against the return  *)
(* type of its workers, Optional[LegalDocument], the documents being those *)
(* LegalDocumentOf builds.                                                 *)
(***************************************************************************)
\* The input of a run: the record read as number n has the body text
\* BodyOf(n), so no two records share a body, and the case name
\* CaseNameOf(n), so records 1, 2, 4, 5, ... share one (case_name, citation)
\* and records 3, 6, ... another.
TheCitation == <<"1">>
CaseNameOf(n) == IF n % 3 = 0 THEN <<"b">> ELSE <<"a">>
BodyOf(n) == <<"c">> \o Str(n)
RecordNo(doc) == CHOOSE n \in 1..MaxRecords : doc.full_text = BodyOf(n)

\* what future.result() can give for the record read as number n
WorkerResults(n) ==
    {[outcome |-> "none", errors |-> 1], [outcome |-> "raise", errors |-> 0],
     LegalDocumentOf(CaseNameOf(n), TheCitation, BodyOf(n),
                     extract_legal_metadata(BodyOf(n)), BodyOf(n), 0)}

\* the futures of the batch docs[i:i + batch_size], by offset in docs
BatchOffsets(start, n) == start..(Min(start + batch_size, n) - 1)

\* leave the file: the next iteration of `for file_path in downloaded_files`
NextFile ==
    /\ nread' = nread + docs_len
    /\ docs_len' = 0
    /\ i' = 0
    /\ pending' = {}
    /\ pc' = "files"

\* lines 1013-1033: take the next file and read its records (a file without
\* records, or of an unsupported type, leaves the state as it is)
OpenFile ==
    /\ pc = "files"
    /\ \E n \in 1..(MaxRecords - nread) :
          /\ docs_len' = n
          /\ i' = 0
          /\ pending' = BatchOffsets(0, n)
          /\ pc' = "collect"
          /\ UNCHANGED nread
    /\ UNCHANGED <<all_legal_docs, sqlite_documents, sqlite_embeddings,
                   qdrant_points, error_counter, processed_documents, flushes,
                   faults, hashseed>>
    /\ UNCHANGED <<chunkVars, docVars, unitVars>>

\* mutant of Collect: the document is put at the head of the accumulated list
CollectPrepend ==
    /\ pc = "collect"
    /\ \E k \in pending : \E r \in WorkerResults(nread + k + 1) :
          CASE r.outcome = "doc" ->
                 /\ all_legal_docs' = <<r.doc>> \o all_legal_docs
                 /\ error_counter' = error_counter + r.errors
                 /\ pending' = pending \ {k}
                 /\ pc' = IF pending' = {} THEN "store" ELSE "collect"
                 /\ UNCHANGED <<docs_len, i, nread>>
            [] r.outcome = "none" ->
                 /\ error_counter' = error_counter + r.errors
                 /\ pending' = pending \ {k}
                 /\ pc' = IF pending' = {} THEN "store" ELSE "collect"
                 /\ UNCHANGED <<all_legal_docs, docs_len, i, nread>>
            [] r.outcome = "raise" ->
                 \* future.result() re-raises: lines 1055-1057
                 /\ error_counter' = error_counter + r.errors + 1
                 /\ NextFile
                 /\ UNCHANGED all_legal_docs
    /\ UNCHANGED <<sqlite_documents, sqlite_embeddings, qdrant_points,
                   processed_documents, flushes, faults, hashseed>>
    /\ UNCHANGED <<chunkVars, docVars, unitVars>>

\* lines 1040-1043: as_completed yields one more future, in completion order
Collect ==
    /\ pc = "collect"
    /\ \E k \in pending : \E r \in WorkerResults(nread + k + 1) :
          CASE r.outcome = "doc" ->
                 /\ all_legal_docs' = Append(all_legal_docs, r.doc)
                 /\ error_counter' = error_counter + r.errors
                 /\ pending' = pending \ {k}
                 /\ pc' = IF pending' = {} THEN "store" ELSE "collect"
                 /\ UNCHANGED <<docs_len, i, nread>>
            [] r.outcome = "none" ->
                 /\ error_counter' = error_counter + r.errors
                 /\ pending' = pending \ {k}
                 /\ pc' = IF pending' = {} THEN "store" ELSE "collect"
                 /\ UNCHANGED <<all_legal_docs, docs_len, i, nread>>
            [] r.outcome = "raise" ->
                 \* future.result() re-raises: lines 1055-1057
                 /\ error_counter' = error_counter + r.errors + 1
                 /\ NextFile
                 /\ UNCHANGED all_legal_docs
    /\ UNCHANGED <<sqlite_documents, sqlite_embeddings, qdrant_points,
                   processed_documents, flushes, faults, hashseed>>
    /\ UNCHANGED <<chunkVars, docVars, unitVars>>

\* the store faults one flush can meet: none, the INSERT of the first
\* document of the batch, the commit, or the upsert
FlushFaults(batch) ==
    {[fail_at |-> 0, commit_fails |-> FALSE, upsert_fails |-> FALSE]}
    \cup (IF faults < MaxFaults
          THEN {[fail_at |-> 1, commit_fails |-> FALSE, upsert_fails |-> FALSE],
                [fail_at |-> 0, commit_fails |-> TRUE, upsert_fails |-> FALSE],
                [fail_at |-> 0, commit_fails |-> FALSE, upsert_fails |-> TRUE]}
          ELSE {})

IsFault(f) == f.fail_at # 0 \/ f.commit_fails \/ f.upsert_fails

\* lines 1047-1048 and 1063-1064: store_in_sqlite, then store_in_qdrant
\* unless store_in_sqlite raised
Flush(batch, f) ==
    LET sq == store_in_sqlite(sqlite_documents, sqlite_embeddings, batch,
                              f.fail_at, f.commit_fails)
        qd == IF sq.raised
              THEN [points |-> qdrant_points, errors |-> 0, upserted |-> FALSE]
              ELSE store_in_qdrant(qdrant_points, batch, hashseed, TRUE,
                                   f.upsert_fails)
    IN  [documents |-> sq.documents, embeddings |-> sq.embeddings,
         points |-> qd.points, errors |-> sq.errors + qd.errors,
         raised |-> sq.raised,
         entry |-> [lo |-> Len(all_legal_docs) - Len(batch) + 1,
                    hi |-> Len(all_legal_docs),
                    sqlite_failed |-> f.fail_at # 0 \/ f.commit_fails,
                    qdrant_called |-> ~sq.raised,
                    qdrant_failed |-> ~sq.raised /\ qd.errors > 0]]

ApplyFlush(fl, f) ==
    /\ sqlite_documents' = fl.documents
    /\ sqlite_embeddings' = fl.embeddings
    /\ qdrant_points' = fl.points
    /\ flushes' = Append(flushes, fl.entry)
    /\ faults' = IF IsFault(f) THEN faults + 1 ELSE faults

\* the next iteration of `for i in range(0, len(docs), batch_size)`
NextBatch ==
    IF i + batch_size < docs_len
    THEN /\ i' = i + batch_size
         /\ pending' = BatchOffsets(i + batch_size, docs_len)
         /\ pc' = "collect"
         /\ UNCHANGED <<docs_len, nread>>
    ELSE NextFile

\* lines 1045-1053: the checkpoint test after a batch
StoreBatch ==
    /\ pc = "store"
    /\ IF Len(all_legal_docs) >= FlushEvery
       THEN \E f \in FlushFaults(LastN(all_legal_docs, FlushEvery)) :
               LET batch == LastN(all_legal_docs, FlushEvery)
                   fl == Flush(batch, f)
               IN  /\ ApplyFlush(fl, f)
                   /\ IF fl.raised
                      THEN \* lines 1055-1057
                           /\ error_counter' = error_counter + fl.errors + 1
                           /\ UNCHANGED processed_documents
                           /\ NextFile
                      ELSE /\ error_counter' = error_counter + fl.errors
                           /\ processed_documents' = processed_documents + Len(batch)
                           /\ NextBatch
       ELSE /\ NextBatch
            /\ UNCHANGED <<sqlite_documents, sqlite_embeddings, qdrant_points,
                           error_counter, processed_documents, flushes, faults>>
    /\ UNCHANGED <<all_legal_docs, hashseed>>
    /\ UNCHANGED <<chunkVars, docVars, unitVars>>

\* lines 1059-1066: after the last file
StoreRemaining ==
    /\ pc = "files"
    /\ LET remaining == Len(all_legal_docs) % FlushEvery IN
       IF all_legal_docs # <<>> /\ remaining > 0
       THEN \E f \in FlushFaults(LastN(all_legal_docs, remaining)) :
               LET fl == Flush(LastN(all_legal_docs, remaining), f)
               IN  /\ ApplyFlush(fl, f)
                   /\ error_counter' = error_counter + fl.errors
                   /\ pc' = IF fl.raised THEN "raised" ELSE "done"
       ELSE /\ pc' = "done"
            /\ UNCHANGED <<sqlite_documents, sqlite_embeddings, qdrant_points,
                           error_counter, flushes, faults>>
    /\ UNCHANGED <<docs_len, i, pending, nread, all_legal_docs,
                   processed_documents, hashseed>>
    /\ UNCHANGED <<chunkVars, docVars, unitVars>>

PipelineInit ==
    /\ pc = "files"
    /\ docs_len = 0
    /\ i = 0
    /\ pending = {}
    /\ nread = 0
    /\ all_legal_docs = <<>>
    /\ sqlite_documents = {}
    /\ sqlite_embeddings = <<>>
    /\ qdrant_points = {}
    /\ error_counter = 0
    /\ processed_documents = 0
    /\ flushes = <<>>
    /\ faults = 0
    /\ hashseed = 0

ChunkIdle ==
    /\ text = <<>>
    /\ max_chunk_size = 1
    /\ chunks = None

DocIdle ==
    /\ raw_record = NotADict
    /\ extract_raises = FALSE
    /\ proc_result = None

TextIdle ==
    /\ field_text = <<>>
    /\ sanitized = <<>>
    /\ cleaned = None
    /\ tokenizer_loaded = FALSE
    /\ optimized = <<>>

ClassifyIdle ==
    /\ csv_file = ""
    /\ csv_row = None
    /\ record = None
    /\ metadata = None

EmbedIdle ==
    /\ embed_texts = <<>>
    /\ encode_fails = 0
    /\ embed_result = None

RunIdle ==
    /\ run_pc = "idle"
    /\ to_validate = <<>>
    /\ validated_datasets = <<>>
    /\ to_download = <<>>
    /\ downloaded_files = <<>>
    /\ exit_status = None

ReadIdle ==
    /\ read_files = <<>>
    /\ read_pos = 1
    /\ read_docs = <<>>

PoolIdle ==
    /\ futures = <<>>
    /\ legal_doc = None
    /\ store_in_progress = {}
    /\ appended_by = {}

IdIdle ==
    /\ id_records = <<>>
    /\ doc_ids = None

BuildIdle ==
    /\ build_text = <<>>
    /\ build_fails = 0
    /\ built = None
    /\ built_stored = FALSE

AuxIdle == ReadIdle /\ PoolIdle /\ IdIdle /\ BuildIdle

UnitIdle == TextIdle /\ ClassifyIdle /\ EmbedIdle /\ RunIdle /\ AuxIdle

Init == PipelineInit /\ ChunkIdle /\ DocIdle /\ UnitIdle

Next == OpenFile \/ Collect \/ StoreBatch \/ StoreRemaining

Spec == Init /\ [][Next]_vars

(***************************************************************************)
(* SpecChunk: chunk_legal_document applied to every text of at most        *)
(* MaxTextLen characters over a letter, a sentence end and the newline,    *)
(* with every max_chunk_size up to MaxChunkSize.                           *)
(***************************************************************************)
ChunkAlphabet == {"a", ".", "\n"}

ChunkTexts == UNION {[1..n -> ChunkAlphabet] : n \in 0..MaxTextLen}

ChunkInit ==
    /\ PipelineInit
    /\ DocIdle
    /\ UnitIdle
    /\ text \in ChunkTexts
    /\ max_chunk_size \in 1..MaxChunkSize
    /\ chunks = None

ChunkDocument ==
    /\ ~chunks.present
    /\ chunks' = Some(chunk_legal_document(text, max_chunk_size))
    /\ UNCHANGED <<text, max_chunk_size>>
    /\ UNCHANGED <<pipelineVars, docVars, unitVars>>

ChunkNext == ChunkDocument

SpecChunk == ChunkInit /\ [][ChunkNext]_vars

(***************************************************************************)
(* SpecDoc: process_legal_document applied to one raw record, with and     *)
(* without a tokenizer, the embedding call succeeding or failing.          *)
(***************************************************************************)
RecordFields ==
    [case_name : {<<"a">>, <<"b">>, <<"a", "[", "b">>},
     citation : {<<>>, <<"1">>, <<"1", "?">>},
     plain_text : {<<>>, <<" ">>, <<"\n", " ">>, <<"c", "1">>, <<"c", "2", ".">>,
                   <<"<", "b", ">", "c">>}]

\* a record with every field, with a field missing, or no mapping at all
RawRecords ==
    RecordFields
    \cup {[citation |-> r.citation, plain_text |-> r.plain_text] : r \in RecordFields}
    \cup {[case_name |-> r.case_name, html |-> r.plain_text] : r \in RecordFields}
    \cup {NotADict}

DocInit ==
    /\ PipelineInit
    /\ ChunkIdle
    /\ UnitIdle
    /\ raw_record \in RawRecords
    /\ extract_raises \in BOOLEAN
    /\ proc_result = None

ProcessDocument ==
    /\ ~proc_result.present
    /\ \E has_tokenizer \in BOOLEAN : \E fail_batch \in {0, 1} :
          proc_result' = Some(process_legal_document(raw_record, has_tokenizer,
                                                     extract_raises, fail_batch))
    /\ UNCHANGED <<raw_record, extract_raises>>
    /\ UNCHANGED <<pipelineVars, chunkVars, unitVars>>

DocNext == ProcessDocument

SpecDoc == DocInit /\ [][DocNext]_vars

(***************************************************************************)
(* SpecIndex: store_in_qdrant called with batches of documents, the        *)
(* collection outliving the process: a later run of the pipeline is a new  *)
(* process, with a hash seed of its own.                                   *)
(***************************************************************************)
HashSeeds == 0..MaxSeed

IndexedDocs ==
    {LegalDocumentOf(c, TheCitation, BodyOf(n), extract_legal_metadata(BodyOf(n)),
                     BodyOf(n), fb).doc :
        c \in {<<"a">>, <<"b">>}, n \in 1..2, fb \in {0, 1}}

IndexBatches == {<<d>> : d \in IndexedDocs} \cup (IndexedDocs \X IndexedDocs)

IndexInit ==
    /\ pc = "index"
    /\ docs_len = 0
    /\ i = 0
    /\ pending = {}
    /\ nread = 0
    /\ all_legal_docs = <<>>
    /\ sqlite_documents = {}
    /\ sqlite_embeddings = <<>>
    /\ qdrant_points = {}
    /\ error_counter = 0
    /\ processed_documents = 0
    /\ flushes = <<>>
    /\ faults = 0
    /\ hashseed \in HashSeeds
    /\ ChunkIdle
    /\ DocIdle
    /\ UnitIdle

\* one call of store_in_qdrant
IndexDocuments ==
    /\ \E batch \in IndexBatches : \E upsert_fails \in BOOLEAN :
          qdrant_points' =
              store_in_qdrant(qdrant_points, batch, hashseed, TRUE, upsert_fails).points
    /\ UNCHANGED <<pc, docs_len, i, pending, nread, all_legal_docs, sqlite_documents,
                   sqlite_embeddings, error_counter, processed_documents, flushes,
                   faults, hashseed>>
    /\ UNCHANGED <<chunkVars, docVars, unitVars>>

\* the pipeline is started again: __init__ finds the collection as it was
\* left (lines 221-231)
RestartProcess ==
    /\ \E seed \in HashSeeds : hashseed' = seed
    /\ UNCHANGED <<pc, docs_len, i, pending, nread, all_legal_docs, sqlite_documents,
                   sqlite_embeddings, qdrant_points, error_counter,
                   processed_documents, flushes, faults>>
    /\ UNCHANGED <<chunkVars, docVars, unitVars>>

IndexNext == IndexDocuments \/ RestartProcess

SpecIndex == IndexInit /\ [][IndexNext]_vars

(***************************************************************************)
(* SpecText: sanitize_text_input applied to a text and then to its own     *)
(* result, and clean_text applied to the same text; the texts are those of *)
(* at most MaxFieldLen characters over the metacharacters, a letter, a     *)
(* space and a character outside the allow-list.                           *)
(***************************************************************************)
TextAlphabet == MetaCharacters \cup {"a", " ", "<"}

FieldTexts == UNION {[1..n -> TextAlphabet] : n \in 0..MaxFieldLen}

TextInit ==
    /\ PipelineInit
    /\ ChunkIdle
    /\ DocIdle
    /\ ClassifyIdle
    /\ EmbedIdle
    /\ RunIdle
    /\ AuxIdle
    /\ field_text \in FieldTexts
    /\ sanitized = <<>>
    /\ cleaned = None
    /\ tokenizer_loaded = FALSE
    /\ optimized = <<>>

\* sanitize_text_input(text), then sanitize_text_input of what it returned
SanitizeField ==
    /\ Len(sanitized) < 2
    /\ sanitized' = Append(sanitized,
           sanitize_text_input(IF sanitized = <<>> THEN field_text
                               ELSE sanitized[Len(sanitized)]))
    /\ UNCHANGED <<field_text, cleaned, tokenizer_loaded, optimized>>
    /\ UNCHANGED <<pipelineVars, chunkVars, docVars, classifyVars, embedVars, runVars, auxVars>>

\* clean_text(text)
CleanBody ==
    /\ ~cleaned.present
    /\ cleaned' = Some(clean_text(field_text))
    /\ UNCHANGED <<field_text, sanitized, tokenizer_loaded, optimized>>
    /\ UNCHANGED <<pipelineVars, chunkVars, docVars, classifyVars, embedVars, runVars, auxVars>>

TextNext == SanitizeField \/ CleanBody

SpecText == TextInit /\ [][TextNext]_vars

(***************************************************************************)
(* SpecOptimize: optimize_for_deepseek_r1 applied to a text, then to its   *)
(* own result, with and without a tokenizer.  The texts are short, or as   *)
(* long as the budget of max_tokens give or take MaxOverBudget tokens.     *)
(***************************************************************************)
\* the k-th character of a text
CharNo(k) == Digits[(k % 10) + 1]

OptimizeLengths ==
    (0..MaxOverBudget)
    \cup ((max_tokens - MaxOverBudget)..(max_tokens + MaxOverBudget))

OptimizeInit ==
    /\ PipelineInit
    /\ ChunkIdle
    /\ DocIdle
    /\ ClassifyIdle
    /\ EmbedIdle
    /\ RunIdle
    /\ AuxIdle
    /\ \E n \in OptimizeLengths : field_text = [k \in 1..n |-> CharNo(k)]
    /\ sanitized = <<>>
    /\ cleaned = None
    /\ tokenizer_loaded \in BOOLEAN
    /\ optimized = <<>>

\* optimize_for_deepseek_r1(text), then optimize_for_deepseek_r1 of what it
\* returned
OptimizeText ==
    /\ Len(optimized) < 2
    /\ optimized' = Append(optimized,
           optimize_for_deepseek_r1(IF optimized = <<>> THEN field_text
                                    ELSE optimized[Len(optimized)],
                                    tokenizer_loaded))
    /\ UNCHANGED <<field_text, sanitized, cleaned, tokenizer_loaded>>
    /\ UNCHANGED <<pipelineVars, chunkVars, docVars, classifyVars, embedVars, runVars, auxVars>>

OptimizeNext == OptimizeText

SpecOptimize == OptimizeInit /\ [][OptimizeNext]_vars

(***************************************************************************)
(* SpecClassify: a raw record is either read from a JSON file or built by  *)
(* convert_csv_row_to_document from a row of the courts CSV or of the      *)
(* citations CSV, and extract_legal_metadata is applied to its text as     *)
(* line 760 does.  A record's text is made of at most MaxPhrases phrases.  *)
(***************************************************************************)
CourtNames ==
    {<<"S", "u", "p", "r", "e", "m", "e", " ", "C", "o", "u", "r", "t">>,
     <<"S", "u", "p", "r", "e", "m", "e", " ", "J", "u", "d", "i", "c", "i", "a", "l", " ", "C", "o", "u", "r", "t">>,
     <<"C", "o", "u", "r", "t", " ", "o", "f", " ", "A", "p", "p", "e", "a", "l", "s">>,
     <<"D", "i", "s", "t", "r", "i", "c", "t", " ", "C", "o", "u", "r", "t">>,
     <<"S", "u", "p", "e", "r", "i", "o", "r", " ", "C", "o", "u", "r", "t">>,
     <<"M", "u", "n", "i", "c", "i", "p", "a", "l", " ", "C", "o", "u", "r", "t">>}

RowJurisdictions == {<<"F">>, <<"S">>}

\* rows of the courts CSV, with and without the full_name column
CourtRows ==
    [full_name : CourtNames, jurisdiction : RowJurisdictions]
    \cup [jurisdiction : RowJurisdictions]

\* the opinions a row of the citations CSV names
OpinionIds == {<<"1">>, <<"2">>, <<"S", "C", "O", "T", "U", "S">>}

\* rows of the citations CSV, with and without the opinion columns
CitationRows ==
    [id : {<<"9">>}, citing_opinion : OpinionIds, cited_opinion : OpinionIds]
    \cup [id : {<<"9">>}]

BodyPhrases ==
    {<<"S", "u", "p", "r", "e", "m", "e", " ", "C", "o", "u", "r", "t">>,
     <<"S", "C", "O", "T", "U", "S">>,
     <<"c", "i", "r", "c", "u", "i", "t">>,
     <<"t", "r", "i", "a", "l", " ", "c", "o", "u", "r", "t">>,
     <<"a", "g", "e", "n", "c", "y">>,
     <<"d", "u", "e", " ", "p", "r", "o", "c", "e", "s", "s">>,
     <<"3", "7", "4", " ", "U", ".", "S", ".", " ", "2", "0", "3">>,
     <<"U", "n", "i", "t", "e", "d", " ", "S", "t", "a", "t", "e", "s">>,
     <<"x">>}

RECURSIVE JoinPhrases(_)
JoinPhrases(ps) ==
    IF ps = <<>> THEN <<>>
    ELSE IF Len(ps) = 1 THEN Head(ps)
    ELSE Head(ps) \o <<" ">> \o JoinPhrases(Tail(ps))

BodyTexts ==
    {JoinPhrases(ps) : ps \in UNION {[1..n -> BodyPhrases] : n \in 0..MaxPhrases}}

JsonRecords == [case_name : {<<"a">>}, court : CourtNames, plain_text : BodyTexts]

ClassifyInit ==
    /\ PipelineInit
    /\ ChunkIdle
    /\ DocIdle
    /\ TextIdle
    /\ EmbedIdle
    /\ RunIdle
    /\ AuxIdle
    /\ \/ csv_file = "courts" /\ csv_row \in {Some(r) : r \in CourtRows} /\ record = None
       \/ csv_file = "citations" /\ csv_row \in {Some(r) : r \in CitationRows}
             /\ record = None
       \/ csv_file = "" /\ csv_row = None /\ record \in {Some(r) : r \in JsonRecords}
    /\ metadata = None

\* lines 1169-1170: a row of the courts CSV becomes a raw record
ConvertCourtRow ==
    /\ csv_file = "courts"
    /\ csv_row.present
    /\ ~record.present
    /\ record' = Some(convert_csv_row_to_document(csv_row.val, csv_file))
    /\ UNCHANGED <<csv_file, csv_row, metadata>>
    /\ UNCHANGED <<pipelineVars, chunkVars, docVars, textVars, embedVars, runVars, auxVars>>

\* lines 1171-1172: a row of the citations CSV becomes a raw record
ConvertCitationRow ==
    /\ csv_file = "citations"
    /\ csv_row.present
    /\ ~record.present
    /\ record' = Some(convert_csv_row_to_document(csv_row.val, csv_file))
    /\ UNCHANGED <<csv_file, csv_row, metadata>>
    /\ UNCHANGED <<pipelineVars, chunkVars, docVars, textVars, embedVars, runVars, auxVars>>

\* line 760: extract_legal_metadata on the record's text
ExtractMetadata ==
    /\ record.present
    /\ ~metadata.present
    /\ metadata' = Some(extract_legal_metadata(record.val.plain_text))
    /\ UNCHANGED <<csv_file, csv_row, record>>
    /\ UNCHANGED <<pipelineVars, chunkVars, docVars, textVars, embedVars, runVars, auxVars>>

ClassifyNext == ConvertCourtRow \/ ConvertCitationRow \/ ExtractMetadata

SpecClassify == ClassifyInit /\ [][ClassifyNext]_vars

(***************************************************************************)
(* SpecEmbed: generate_embeddings applied to a list of up to MaxTexts      *)
(* texts, every encode call succeeding or one of them raising.             *)
(***************************************************************************)
\* the k-th text of the list: no two texts of a list are equal
TextNo(k) == <<Digits[(k \div 10) + 1], Digits[(k % 10) + 1]>>

EmbedInit ==
    /\ PipelineInit
    /\ ChunkIdle
    /\ DocIdle
    /\ TextIdle
    /\ ClassifyIdle
    /\ RunIdle
    /\ AuxIdle
    /\ \E n \in 0..MaxTexts : embed_texts = [k \in 1..n |-> TextNo(k)]
    /\ encode_fails \in 0..NumBatches(MaxTexts, embed_batch_size)
    /\ embed_result = None

GenerateEmbeddings ==
    /\ ~embed_result.present
    /\ embed_result' = Some(generate_embeddings(embed_texts, encode_fails))
    /\ UNCHANGED <<embed_texts, encode_fails>>
    /\ UNCHANGED <<pipelineVars, chunkVars, docVars, textVars, classifyVars, runVars, auxVars>>

EmbedNext == GenerateEmbeddings

SpecEmbed == EmbedInit /\ [][EmbedNext]_vars

(***************************************************************************)
(* SpecRun: main (lines 2230-2306) running run_full_pipeline (lines        *)
(* 2001-2124) through asyncio.run, with download_courtlistener_data (lines *)
(* 363-539) step by step.  The archive's answers (validate_url, the GET of *)
(* a file) and the outcome of the steps after the download are inputs.     *)
(***************************************************************************)
\* the values of --mode that main accepts (line 2234)
Modes == {"test", "sample", "full"}

\* lines 375-486: the datasets of a mode, named without date and suffix;
\* "full" is none of the modes tested, so it takes the default branch
DatasetsOfMode(mode) ==
    CASE mode = "test" -> <<"courts">>
      [] mode = "sample" -> <<"courts", "citations">>
      [] OTHER -> <<"courts", "citations", "opinion-clusters", "dockets", "opinions">>

\* the exit status of the interpreter: main returns, or an exception leaves it
ExitNormal == 0
ExitUncaught == 1

RunInit ==
    /\ PipelineInit
    /\ ChunkIdle
    /\ DocIdle
    /\ TextIdle
    /\ ClassifyIdle
    /\ EmbedIdle
    /\ AuxIdle
    /\ run_pc = "start"
    /\ \E mode \in Modes : to_validate = DatasetsOfMode(mode)
    /\ validated_datasets = <<>>
    /\ to_download = <<>>
    /\ downloaded_files = <<>>
    /\ exit_status = None

\* what a step of the run leaves alone besides the variables of the run
\* and error_counter
runFrame == <<pc, docs_len, i, pending, nread, all_legal_docs, sqlite_documents,
              sqlite_embeddings, qdrant_points, processed_documents, flushes,
              faults, hashseed, chunkVars, docVars, textVars, classifyVars,
              embedVars, auxVars>>

\* lines 2121-2124 and 2306: the handler of run_full_pipeline counts the
\* error and re-raises; nothing in main catches it
PipelineFailed ==
    /\ error_counter' = error_counter + 1
    /\ run_pc' = "exited"
    /\ exit_status' = Some(ExitUncaught)

\* run_full_pipeline returns and main after it
PipelineReturned ==
    /\ run_pc' = "exited"
    /\ exit_status' = Some(ExitNormal)
    /\ UNCHANGED error_counter

\* lines 2006-2013: start_http_server, then the call of
\* download_courtlistener_data
StartMetricsServer ==
    /\ run_pc = "start"
    /\ \E raises \in BOOLEAN :
          IF raises THEN PipelineFailed
          ELSE /\ run_pc' = "validate"
               /\ UNCHANGED <<error_counter, exit_status>>
    /\ UNCHANGED <<to_validate, validated_datasets, to_download, downloaded_files>>
    /\ UNCHANGED runFrame

\* lines 489-496: one iteration of the validation loop; validate_url
\* (lines 150-157) answers True or False and never raises
ValidateDataset ==
    /\ run_pc = "validate"
    /\ to_validate # <<>>
    /\ \E valid \in BOOLEAN :
          validated_datasets' = IF valid
                                THEN Append(validated_datasets, Head(to_validate))
                                ELSE validated_datasets
    /\ to_validate' = Tail(to_validate)
    /\ UNCHANGED <<run_pc, to_download, downloaded_files, exit_status, error_counter>>
    /\ UNCHANGED runFrame

\* lines 498-502 after the validation loop: without a validated dataset
\* download_courtlistener_data returns [], and run_full_pipeline returns
\* at lines 2015-2017
EndValidation ==
    /\ run_pc = "validate"
    /\ to_validate = <<>>
    /\ IF validated_datasets = <<>>
       THEN /\ PipelineReturned
            /\ UNCHANGED to_download
       ELSE /\ run_pc' = "download"
            /\ to_download' = validated_datasets
            /\ UNCHANGED <<exit_status, error_counter>>
    /\ UNCHANGED <<to_validate, validated_datasets, downloaded_files>>
    /\ UNCHANGED runFrame

\* lines 504-536: one iteration of the download loop: the file is there
\* already, is downloaded, or the download fails and is counted
DownloadDataset ==
    /\ run_pc = "download"
    /\ to_download # <<>>
    /\ \E outcome \in {"exists", "downloaded", "failed"} :
          IF outcome = "failed"
          THEN /\ error_counter' = error_counter + 1
               /\ UNCHANGED downloaded_files
          ELSE /\ downloaded_files' = Append(downloaded_files, Head(to_download))
               /\ UNCHANGED error_counter
    /\ to_download' = Tail(to_download)
    /\ UNCHANGED <<run_pc, to_validate, validated_datasets, exit_status>>
    /\ UNCHANGED runFrame

\* lines 538-539 and 2015-2017: download_courtlistener_data returns
\* downloaded_files; run_full_pipeline returns when the list is empty
EndDownload ==
    /\ run_pc = "download"
    /\ to_download = <<>>
    /\ IF downloaded_files = <<>>
       THEN PipelineReturned
       ELSE /\ run_pc' = "process"
            /\ UNCHANGED <<exit_status, error_counter>>
    /\ UNCHANGED <<to_validate, validated_datasets, to_download, downloaded_files>>
    /\ UNCHANGED runFrame

\* lines 2019-2124: the steps after the download run to the end or one of
\* them raises
ProcessAndReport ==
    /\ run_pc = "process"
    /\ \E raises \in BOOLEAN :
          IF raises THEN PipelineFailed ELSE PipelineReturned
    /\ UNCHANGED <<to_validate, validated_datasets, to_download, downloaded_files>>
    /\ UNCHANGED runFrame

RunNext ==
    \/ StartMetricsServer
    \/ ValidateDataset
    \/ EndValidation
    \/ DownloadDataset
    \/ EndDownload
    \/ ProcessAndReport

SpecRun == RunInit /\ [][RunNext]_vars

(***************************************************************************)
(* SpecRead: the file loop of process_courtlistener_files reading each of  *)
(* up to MaxFiles files (lines 1013-1028); what the loop does with the     *)
(* records it read is specification Spec.                                  *)
(***************************************************************************)
RecordA == [case_name |-> <<"a">>, plain_text |-> <<"c", "1">>]
RecordB == [case_name |-> <<"b">>, plain_text |-> <<"c", "2">>]

JsonContents ==
    {[kind |-> "array", items |-> <<RecordA, NotADict>>],
     [kind |-> "array", items |-> <<>>],
     [kind |-> "object", value |-> RecordA],
     [kind |-> "number"],
     [kind |-> "invalid"]}

InputFiles ==
    {[dataset |-> "opinions", ext |-> ".json", content |-> c] : c \in JsonContents}
    \cup {[dataset |-> "opinions", ext |-> ".txt",
           content |-> [kind |-> "array", items |-> <<RecordA>>]],
          [dataset |-> "opinions", ext |-> ".json.gz",
           content |-> [kind |-> "lines", lines |-> <<RecordA, InvalidJson, RecordB>>]],
          [dataset |-> "opinions", ext |-> ".tar.gz",
           content |-> [kind |-> "members",
                        members |-> <<[is_json_file |-> TRUE, json |-> RecordA],
                                      [is_json_file |-> FALSE, json |-> RecordB],
                                      [is_json_file |-> TRUE, json |-> InvalidJson]>>]],
          [dataset |-> "courts", ext |-> ".csv.bz2",
           content |-> [kind |-> "rows",
                        rows |-> <<[full_name |-> <<"S", "u", "p", "r", "e", "m", "e">>,
                                    jurisdiction |-> <<"F">>]>>]]}

ReadInit ==
    /\ PipelineInit
    /\ ChunkIdle
    /\ DocIdle
    /\ TextIdle
    /\ ClassifyIdle
    /\ EmbedIdle
    /\ RunIdle
    /\ PoolIdle
    /\ IdIdle
    /\ BuildIdle
    /\ read_files \in UNION {[1..n -> InputFiles] : n \in 1..MaxFiles}
    /\ read_pos = 1
    /\ read_docs = <<>>

\* one iteration of `for file_path in downloaded_files` up to line 1028
ReadNextFile ==
    /\ read_pos <= Len(read_files)
    /\ read_docs' = Append(read_docs, DocsOfFile(read_files[read_pos]))
    /\ read_pos' = read_pos + 1
    /\ UNCHANGED read_files
    /\ UNCHANGED <<pipelineVars, chunkVars, docVars, textVars, classifyVars, embedVars,
                   runVars, poolVars, idVars, buildVars>>

ReadNext == ReadNextFile

\* the for statement of line 1013 moving on to the next file; every
\* ReadNextFile step is such a step
AdvanceFileLoop == read_pos <= Len(read_files) /\ read_pos' = read_pos + 1

\* the loop is sequential code: an iteration that can run does run
SpecRead == ReadInit /\ [][ReadNext]_vars /\ WF_read_pos(AdvanceFileLoop)

(***************************************************************************)
(* SpecPool: the threads of process_courtlistener_files on one file of up  *)
(* to 2 * batch_size records (lines 1030-1066).  The coordinating thread   *)
(* submits a batch to a ThreadPoolExecutor of max_workers threads, takes   *)
(* the futures as they complete, leaves the `with` block (shutdown with    *)
(* wait=True, also when future.result() raised) and runs the checkpoint.   *)
(* A worker thread runs process_legal_document from StartWorker to         *)
(* FinishWorker; a store write runs from BeginStore to EndStore.  What the *)
(* writes put into the stores is specification Spec.                       *)
(***************************************************************************)
Coordinator == "coordinator"

Running == {k \in DOMAIN futures : futures[k].state = "running"}

AllDone == \A k \in DOMAIN futures : futures[k].state \in {"finished", "yielded"}

PoolInit ==
    /\ pc = "submit"
    /\ docs_len \in 1..(2 * batch_size)
    /\ i = 0
    /\ pending = {}
    /\ nread = 0
    /\ all_legal_docs = <<>>
    /\ sqlite_documents = {}
    /\ sqlite_embeddings = <<>>
    /\ qdrant_points = {}
    /\ error_counter = 0
    /\ processed_documents = 0
    /\ flushes = <<>>
    /\ faults = 0
    /\ hashseed = 0
    /\ ChunkIdle
    /\ DocIdle
    /\ TextIdle
    /\ ClassifyIdle
    /\ EmbedIdle
    /\ RunIdle
    /\ ReadIdle
    /\ PoolIdle
    /\ IdIdle
    /\ BuildIdle

poolFrame == <<pending, nread, sqlite_documents, sqlite_embeddings, qdrant_points,
               flushes, faults, hashseed, chunkVars, docVars, textVars,
               classifyVars, embedVars, runVars, readVars, idVars, buildVars>>

\* lines 1036-1038: the executor is created and the batch submitted
SubmitBatch ==
    /\ pc = "submit"
    /\ futures' = [k \in BatchOffsets(i, docs_len) |-> [state |-> "queued"]]
    /\ pc' = "as_completed"
    /\ UNCHANGED <<docs_len, i, all_legal_docs, error_counter, processed_documents,
                   legal_doc, store_in_progress, appended_by>>
    /\ UNCHANGED poolFrame

\* a free worker thread of the executor takes a queued call
StartWorker ==
    /\ \E k \in DOMAIN futures :
          /\ futures[k].state = "queued"
          /\ Cardinality(Running) < max_workers
          /\ futures' = [futures EXCEPT ![k] = [state |-> "running"]]
    /\ UNCHANGED <<pc, docs_len, i, all_legal_docs, error_counter, processed_documents,
                   legal_doc, store_in_progress, appended_by>>
    /\ UNCHANGED poolFrame

\* process_legal_document returns or raises in its worker thread
FinishWorker ==
    /\ \E k \in DOMAIN futures : \E r \in WorkerResults(k + 1) :
          /\ futures[k].state = "running"
          /\ futures' = [futures EXCEPT ![k] = [state |-> "finished", result |-> r]]
    /\ UNCHANGED <<pc, docs_len, i, all_legal_docs, error_counter, processed_documents,
                   legal_doc, store_in_progress, appended_by>>
    /\ UNCHANGED poolFrame

\* lines 1040-1041: as_completed yields a finished future and
\* future.result() returns its result or re-raises
TakeResult ==
    /\ pc = "as_completed"
    /\ \E k \in DOMAIN futures :
          /\ futures[k].state = "finished"
          /\ futures' = [futures EXCEPT ![k].state = "yielded"]
          /\ LET r == futures[k].result IN
             CASE r.outcome = "doc" -> /\ legal_doc' = Some(r.doc)
                                       /\ pc' = "append"
                                       /\ UNCHANGED error_counter
               [] r.outcome = "none" -> /\ legal_doc' = None
                                        /\ pc' = "as_completed"
                                        /\ error_counter' = error_counter + r.errors
               [] r.outcome = "raise" -> /\ legal_doc' = None
                                         /\ pc' = "shutdown_raised"
                                         /\ UNCHANGED error_counter
    /\ UNCHANGED <<docs_len, i, all_legal_docs, processed_documents,
                   store_in_progress, appended_by>>
    /\ UNCHANGED poolFrame

\* lines 1042-1043, in the coordinating thread
AppendResult ==
    /\ pc = "append"
    /\ all_legal_docs' = Append(all_legal_docs, legal_doc.val)
    /\ appended_by' = appended_by \cup {Coordinator}
    /\ legal_doc' = None
    /\ pc' = "as_completed"
    /\ UNCHANGED <<docs_len, i, futures, error_counter, processed_documents,
                   store_in_progress>>
    /\ UNCHANGED poolFrame

\* the end of the `with` block of line 1036: as_completed is exhausted, or
\* future.result() raised; __exit__ calls shutdown(wait=True), which
\* returns when every submitted call has run
LeaveWith ==
    /\ \/ pc = "as_completed" /\ \A k \in DOMAIN futures : futures[k].state = "yielded"
       \/ pc = "shutdown_raised"
    /\ AllDone
    /\ IF pc = "shutdown_raised"
       THEN \* lines 1055-1057, then the loop over the files ends
            /\ error_counter' = error_counter + 1
            /\ pc' = "remaining"
       ELSE /\ pc' = "checkpoint"
            /\ UNCHANGED error_counter
    /\ futures' = <<>>
    /\ UNCHANGED <<docs_len, i, all_legal_docs, processed_documents, legal_doc,
                   store_in_progress, appended_by>>
    /\ UNCHANGED poolFrame

\* the next iteration of line 1032, or the end of the file
PoolNextBatch ==
    IF i + batch_size < docs_len
    THEN i' = i + batch_size /\ pc' = "submit"
    ELSE i' = i /\ pc' = "remaining"

\* lines 1046-1047 and 1060-1063: the coordinating thread calls store_in_sqlite
BeginStore ==
    /\ \/ pc = "checkpoint" /\ Len(all_legal_docs) >= FlushEvery
       \/ pc = "remaining" /\ Len(all_legal_docs) % FlushEvery > 0
    /\ store_in_progress' = store_in_progress \cup {"sqlite"}
    /\ pc' = IF pc = "checkpoint" THEN "store_in_sqlite" ELSE "last_store_in_sqlite"
    /\ UNCHANGED <<docs_len, i, all_legal_docs, futures, error_counter,
                   processed_documents, legal_doc, appended_by>>
    /\ UNCHANGED poolFrame

\* store_in_sqlite returns or raises; lines 1048 and 1064: store_in_qdrant
\* is called when it returned
EndSqlite ==
    /\ pc \in {"store_in_sqlite", "last_store_in_sqlite"}
    /\ \E raised \in BOOLEAN :
          IF raised
          THEN /\ store_in_progress' = store_in_progress \ {"sqlite"}
               /\ error_counter' = error_counter + (IF pc = "store_in_sqlite" THEN 2 ELSE 1)
               /\ pc' = IF pc = "store_in_sqlite" THEN "remaining" ELSE "raised"
          ELSE /\ store_in_progress' = (store_in_progress \ {"sqlite"}) \cup {"qdrant"}
               /\ pc' = IF pc = "store_in_sqlite" THEN "store_in_qdrant"
                        ELSE "last_store_in_qdrant"
               /\ UNCHANGED error_counter
    /\ UNCHANGED <<docs_len, i, all_legal_docs, futures, processed_documents,
                   legal_doc, appended_by>>
    /\ UNCHANGED poolFrame

\* store_in_qdrant returns (it raises nothing); lines 1050-1051 after a
\* checkpoint, line 1066 after the last store
EndQdrant ==
    /\ pc \in {"store_in_qdrant", "last_store_in_qdrant"}
    /\ store_in_progress' = store_in_progress \ {"qdrant"}
    /\ IF pc = "store_in_qdrant"
       THEN /\ processed_documents' =
                   processed_documents + Len(LastN(all_legal_docs, FlushEvery))
            /\ PoolNextBatch
       ELSE /\ pc' = "done"
            /\ UNCHANGED <<i, processed_documents>>
    /\ UNCHANGED <<docs_len, all_legal_docs, futures, error_counter, legal_doc,
                   appended_by>>
    /\ UNCHANGED poolFrame

\* lines 1046 and 1060-1062 when nothing is to be stored
SkipStore ==
    /\ \/ /\ pc = "checkpoint"
          /\ Len(all_legal_docs) < FlushEvery
          /\ PoolNextBatch
       \/ /\ pc = "remaining"
          /\ Len(all_legal_docs) % FlushEvery = 0
          /\ pc' = "done"
          /\ UNCHANGED i
    /\ UNCHANGED <<docs_len, all_legal_docs, futures, error_counter,
                   processed_documents, legal_doc, store_in_progress, appended_by>>
    /\ UNCHANGED poolFrame

PoolNext ==
    \/ SubmitBatch
    \/ StartWorker
    \/ FinishWorker
    \/ TakeResult
    \/ AppendResult
    \/ LeaveWith
    \/ BeginStore
    \/ EndSqlite
    \/ EndQdrant
    \/ SkipStore

SpecPool == PoolInit /\ [][PoolNext]_vars

(***************************************************************************)
(* SpecId: the ids process_legal_document gives two records (lines 745-746 *)
(* and 775), over records with and without a case name and a citation,     *)
(* the values with and without the underscore.                             *)
(***************************************************************************)
IdCaseNames == {<<"a">>, <<"a", "_", "b">>}
IdCitations == {<<"c">>, <<"b", "_", "c">>}

IdRecords ==
    LET body == [plain_text |-> <<"t">>] IN
    {body}
    \cup {[case_name |-> n] @@ body : n \in IdCaseNames}
    \cup {[citation |-> c] @@ body : c \in IdCitations}
    \cup {[case_name |-> n, citation |-> c] @@ body : n \in IdCaseNames, c \in IdCitations}

IdInit ==
    /\ PipelineInit
    /\ ChunkIdle
    /\ DocIdle
    /\ TextIdle
    /\ ClassifyIdle
    /\ EmbedIdle
    /\ RunIdle
    /\ ReadIdle
    /\ PoolIdle
    /\ BuildIdle
    /\ id_records \in [1..2 -> IdRecords]
    /\ doc_ids = None

\* lines 745-746 and 775 on each of the two records
AssignIds ==
    /\ ~doc_ids.present
    /\ doc_ids' = Some([k \in 1..2 |->
                          LET pair == SanitizedPairOf(id_records[k])
                          IN  DocIdOf(pair[1], pair[2])])
    /\ UNCHANGED id_records
    /\ UNCHANGED <<pipelineVars, chunkVars, docVars, textVars, classifyVars, embedVars,
                   runVars, readVars, poolVars, buildVars>>

IdNext == AssignIds

SpecId == IdInit /\ [][IdNext]_vars

(***************************************************************************)
(* SpecBuild: the part of process_legal_document after the text has been   *)
(* cleaned and optimized (lines 774-807) applied to every optimized text   *)
(* of at most MaxBuildLen characters over a letter, the space and the      *)
(* newline, the embedding model failing or not, and store_in_qdrant called *)
(* with the document it returns.                                           *)
(***************************************************************************)
BuildTexts == UNION {[1..n -> {"a", " ", "\n"}] : n \in 0..MaxBuildLen}

BuildInit ==
    /\ PipelineInit
    /\ ChunkIdle
    /\ DocIdle
    /\ TextIdle
    /\ ClassifyIdle
    /\ EmbedIdle
    /\ RunIdle
    /\ ReadIdle
    /\ PoolIdle
    /\ IdIdle
    /\ build_text \in BuildTexts
    /\ build_fails \in {0, 1}
    /\ built = None
    /\ built_stored = FALSE

\* lines 774-807
BuildDocument ==
    /\ ~built.present
    /\ built' = Some(LegalDocumentOf(<<"a">>, TheCitation, <<"a">> \o build_text,
                                     FallbackMetadata, build_text, build_fails).doc)
    /\ UNCHANGED <<build_text, build_fails, built_stored>>
    /\ UNCHANGED <<pipelineVars, chunkVars, docVars, textVars, classifyVars, embedVars,
                   runVars, readVars, poolVars, idVars>>

\* lines 1048 and 1064 with the document in the slice
StoreBuilt ==
    /\ built.present
    /\ ~built_stored
    /\ qdrant_points' =
           store_in_qdrant(qdrant_points, <<built.val>>, hashseed, TRUE, FALSE).points
    /\ built_stored' = TRUE
    /\ UNCHANGED <<build_text, build_fails, built>>
    /\ UNCHANGED <<pc, docs_len, i, pending, nread, all_legal_docs, sqlite_documents,
                   sqlite_embeddings, error_counter, processed_documents, flushes,
                   faults, hashseed>>
    /\ UNCHANGED <<chunkVars, docVars, textVars, classifyVars, embedVars,
                   runVars, readVars, poolVars, idVars>>

BuildNext == BuildDocument \/ StoreBuilt

SpecBuild == BuildInit /\ [][BuildNext]_vars

(***************************************************************************)
(* Properties                                                              *)
(***************************************************************************)
\* the positions of all_legal_docs some flush has passed to the stores
Covers(k, idx) == flushes[k].lo <= idx /\ idx <= flushes[k].hi
Flushed(idx) == \E k \in 1..Len(flushes) : Covers(k, idx)
Unflushed == {idx \in 1..Len(all_legal_docs) : ~Flushed(idx)}

\* the run has returned, every record read gave a document and no store faulted
ZeroFailures ==
    /\ pc = "done"
    /\ faults = 0
    /\ error_counter = 0
    /\ Len(all_legal_docs) = nread

CeilDiv(n, d) == (n + d - 1) \div d

\* C1: processing N documents with zero failures makes exactly
\* ceil(N / FlushEvery) flush calls, and the flushed batches partition the
\* documents (every document is in exactly one of them).
C1_FlushCallsPartitionDocuments ==
    ZeroFailures =>
        /\ Len(flushes) = CeilDiv(Len(all_legal_docs), FlushEvery)
        /\ \A idx \in 1..Len(all_legal_docs) :
              Cardinality({k \in 1..Len(flushes) : Covers(k, idx)}) = 1

\* C2: when process_courtlistener_files returns, every document of its
\* result list has been passed to the relational-cache flush at least once.
C2_EveryDocumentFlushed ==
    pc = "done" => Unflushed = {}

\* C3: at every point of a run fewer than FlushEvery successfully processed
\* documents have not yet been passed to any flush.
C3_UnflushedBelowThreshold ==
    Cardinality(Unflushed) < FlushEvery

SameKey(d, e) == d.case_name = e.case_name /\ d.citation = e.citation

\* the document of the latest record read that has the key of d
LatestOfKey(d) ==
    CHOOSE e \in {all_legal_docs[k] : k \in 1..Len(all_legal_docs)} :
        /\ SameKey(d, e)
        /\ \A k \in 1..Len(all_legal_docs) :
              SameKey(d, all_legal_docs[k]) => RecordNo(all_legal_docs[k]) <= RecordNo(e)

\* C4: two successfully processed records with the same (case_name, citation)
\* and different bodies get the same id, and after a run without store
\* faults the documents table holds exactly one row for that id, the row of
\* the later record.
C4_LatestVersionKept ==
    (pc = "done" /\ faults = 0) =>
        \A j, k \in 1..Len(all_legal_docs) :
            LET d == all_legal_docs[j]
                e == all_legal_docs[k]
            IN  (SameKey(d, e) /\ d.full_text # e.full_text) =>
                    /\ d.id = e.id
                    /\ {r \in sqlite_documents : r.id = d.id}
                           = {DocumentRow(LatestOfKey(d))}

\* C5: the embeddings table holds at most one row per (document_id, chunk_id).
C5_OneRowPerChunk ==
    \A j, k \in 1..Len(sqlite_embeddings) :
        (/\ sqlite_embeddings[j].document_id = sqlite_embeddings[k].document_id
         /\ sqlite_embeddings[j].chunk_id = sqlite_embeddings[k].chunk_id) => j = k

\* C6: a logical document, and a logical chunk of it, has at most one point
\* in the collection, however often and in whichever run it was indexed.
C6_OnePointPerDocument ==
    \A p, q \in qdrant_points : p.payload = q.payload => p.id = q.id

\* C7: in every flush a failing relational-cache write still lets the
\* similarity-index write of the batch happen, and no store failure aborts
\* the run.
C7_StoreFailuresIsolated ==
    /\ pc # "raised"
    /\ \A k \in 1..Len(flushes) : flushes[k].sqlite_failed => flushes[k].qdrant_called

FullTextOf(doc_data) == Get(doc_data, "plain_text", Get(doc_data, "html", <<>>))

\* C8: a record whose text gives zero chunks (a text of whitespace only) is
\* still returned by process_legal_document, as a document without
\* document-level embedding and without chunk embeddings.
C8_DocumentWithoutChunksReturned ==
    (/\ proc_result.present
     /\ IsDict(raw_record)
     /\ FullTextOf(raw_record) # <<>>
     /\ IsBlank(FullTextOf(raw_record))) =>
        /\ proc_result.val.outcome = "doc"
        /\ ~proc_result.val.doc.embedding.present
        /\ ~HasChunkEmbeddings(proc_result.val.doc)

\* C9: every chunk is at most max_chunk_size characters long, separators
\* included, unless it is a single sentence that is itself longer.
C9_ChunksWithinMaxSize ==
    chunks.present =>
        \A k \in 1..Len(chunks.val) :
            \/ Len(chunks.val[k]) <= max_chunk_size
            \/ chunks.val[k] \in SentencesOf(text)

\* C10: the chunks, concatenated in output order, hold the characters of the
\* text other than whitespace, each once and in the order of the text.
C10_ChunksPreserveContent ==
    chunks.present => NonWhitespace(Concat(chunks.val)) = NonWhitespace(text)

\* C10 witness: a text of several paragraphs cut into several chunks, one of
\* them a sentence longer than max_chunk_size
C10_Witness ==
    /\ chunks.present
    /\ Len(SplitBlankLine(text, <<>>)) >= 2
    /\ Len(chunks.val) >= 3
    /\ \E k \in 1..Len(chunks.val) :
          /\ Len(chunks.val[k]) > max_chunk_size
          /\ chunks.val[k] \in SentencesOf(text)

\* C11: no result of sanitize_text_input holds a pattern metacharacter, and
\* sanitizing a sanitized text gives the same text.
C11_SanitizeRemovesMetaAndIdempotent ==
    /\ \A j \in 1..Len(sanitized) : \A k \in 1..Len(sanitized[j]) :
          sanitized[j][k] \notin MetaCharacters
    /\ Len(sanitized) = 2 => sanitized[2] = sanitized[1]

\* C11 witness: a text with metacharacters whose sanitized form is not
\* empty has been sanitized twice
C11_Witness ==
    /\ Len(sanitized) = 2
    /\ sanitized[1] # <<>>
    /\ sanitized[1] # field_text
    /\ \E k \in 1..Len(field_text) : field_text[k] \in MetaCharacters

\* C12: sanitize_text_input and clean_text return a text for every input
\* and never raise; the empty input gives the empty text.
C12_SanitizeAndCleanTotal ==
    /\ cleaned.present =>
          /\ cleaned.val.ok
          /\ field_text = <<>> => cleaned.val.val = <<>>
    /\ (sanitized # <<>> /\ field_text = <<>>) => sanitized[1] = <<>>

\* the court fields and court names that name a supreme court
NamesSupreme(court_name) ==
    IsSubstring(<<"s", "u", "p", "r", "e", "m", "e">>, Lower(court_name))

\* C13: a record whose court field names a supreme court is classified
\* court_level supreme with authority weight 1.0 whatever its text says;
\* with "due process" and "374 U.S. 203" in the text its legal areas hold
\* constitutional and its citations hold "374 U.S. 203".
C13_SupremeCourtRecordClassified ==
    (/\ csv_row = None
     /\ metadata.present
     /\ record.val.plain_text # <<>>
     /\ NamesSupreme(record.val.court)) =>
        /\ metadata.val.court_level = "supreme"
        /\ metadata.val.authority_weight = 10
        /\ IsSubstring(<<"d", "u", "e", " ", "p", "r", "o", "c", "e", "s", "s">>, record.val.plain_text) =>
              "constitutional" \in metadata.val.legal_areas
        /\ IsSubstring(<<"3", "7", "4", " ", "U", ".", "S", ".", " ", "2", "0", "3">>, record.val.plain_text) =>
              <<"3", "7", "4", " ", "U", ".", "S", ".", " ", "2", "0", "3">> \in metadata.val.citations_extracted

\* C14: a court name containing "supreme" gives court_level supreme and
\* authority weight 1.0, in the record the court-row adapter builds and in
\* the classification of that record.
C14_SupremeCourtNameIsSupreme ==
    (/\ csv_row.present
     /\ "full_name" \in DOMAIN csv_row.val
     /\ NamesSupreme(csv_row.val.full_name)) =>
        /\ record.present =>
              /\ record.val.court_level = "supreme"
              /\ record.val.authority_weight = 10
        /\ metadata.present =>
              /\ metadata.val.court_level = "supreme"
              /\ metadata.val.authority_weight = 10

\* the court levels in priority order, and the levels whose keywords a text
\* holds
CourtLevelPriority == <<"supreme", "appellate", "district", "administrative">>

LevelTerms(level) ==
    CASE level = "supreme" -> SupremeTerms
      [] level = "appellate" -> AppellateTerms
      [] level = "district" -> DistrictTerms
      [] level = "administrative" -> AdministrativeTerms

LevelsNamed(t) ==
    {k \in 1..Len(CourtLevelPriority) :
        AnyTermIn(LevelTerms(CourtLevelPriority[k]), Lower(t))}

\* C19: the court level extract_legal_metadata assigns is the
\* highest-priority level among those whose keywords the text holds, in the
\* order supreme, appellate, district, administrative, and unknown when the
\* text holds none.
C19_CourtLevelByPriority ==
    metadata.present =>
        LET named == LevelsNamed(record.val.plain_text) IN
        metadata.val.court_level =
            IF named = {} THEN "unknown"
            ELSE CourtLevelPriority[CHOOSE k \in named : \A j \in named : k <= j]

\* C19 witness: a text that holds keywords of two levels, the one of lower
\* priority first, has been classified
C19_Witness ==
    /\ metadata.present
    /\ csv_row = None
    /\ Cardinality(LevelsNamed(record.val.plain_text)) = 2
    /\ \E a \in DistrictTerms : \E b \in AppellateTerms :
          IsSubstring(a \o <<" ">> \o b, Lower(record.val.plain_text))

\* C20: the authority weight of every classification, and of every raw
\* record the court-row adapter builds, is the weight the fixed table gives
\* for the court level it carries, and lies between 0.0 and 1.0.
C20_WeightMatchesCourtLevel ==
    /\ metadata.present =>
          /\ metadata.val.authority_weight = AuthorityWeightOf(metadata.val.court_level)
          /\ metadata.val.authority_weight \in 0..10
    /\ (csv_file = "courts" /\ record.present) =>
          /\ record.val.authority_weight = AuthorityWeightOf(record.val.court_level)
          /\ record.val.authority_weight \in 0..10

\* an encode call of this generate_embeddings call raises
EncodeFailed ==
    encode_fails \in 1..NumBatches(Len(embed_texts), embed_batch_size)

\* C15: generate_embeddings returns one vector per text, in the order of
\* the texts, or the empty list when an encode call fails, whichever call
\* it is; the failed call increments the error counter once.
C15_AllVectorsOrNone ==
    embed_result.present =>
        IF EncodeFailed
        THEN /\ embed_result.val.embeddings = <<>>
             /\ embed_result.val.errors = 1
        ELSE /\ Len(embed_result.val.embeddings) = Len(embed_texts)
             /\ \A k \in 1..Len(embed_texts) :
                   embed_result.val.embeddings[k] = VectorOf(embed_texts[k])
             /\ embed_result.val.errors = 0

\* C15 witness: the third encode call failed after two batches were encoded
C15_Witness ==
    /\ embed_result.present
    /\ Len(embed_texts) > 2 * embed_batch_size
    /\ encode_fails = 3
    /\ embed_result.val.embeddings = <<>>

\* C16: a failure while processing one record drops only that record: when
\* the loop has left a file behind without any store fault, every record
\* read so far had its result collected, as a document of all_legal_docs
\* or as one counted failure.
C16_RecordFailureDropsOnlyThatRecord ==
    (pc = "files" /\ faults = 0) =>
        Len(all_legal_docs) + error_counter = nread

\* C17: when no dataset of the archive passes validation the run is a
\* fatal failure: the process exits with a non-zero status.
C17_UnavailableArchiveIsFatal ==
    (run_pc = "exited" /\ to_validate = <<>> /\ validated_datasets = <<>>) =>
        exit_status.val # ExitNormal

\* the sum of the counts of a distribution
RECURSIVE SumOfCounts(_)
SumOfCounts(distribution) ==
    IF DOMAIN distribution = {} THEN 0
    ELSE LET key == CHOOSE k \in DOMAIN distribution : TRUE
         IN  distribution[key]
             + SumOfCounts([k \in DOMAIN distribution \ {key} |-> distribution[k]])

\* C18: the quality report made after the processing loop counts the rows
\* of the relational cache: its document count is the number of distinct
\* document ids persisted, each distribution sums to that count, and its
\* embedding count is the number of distinct (document, chunk) embeddings
\* persisted.
C18_ReportCountsDistinctRows ==
    pc = "done" =>
        LET report == generate_quality_report(sqlite_documents, sqlite_embeddings)
        IN  /\ report.total_documents_processed
                   = Cardinality({r.id : r \in sqlite_documents})
            /\ SumOfCounts(report.court_levels) = report.total_documents_processed
            /\ SumOfCounts(report.jurisdictions) = report.total_documents_processed
            /\ report.total_embeddings_generated
                   = Cardinality({<<sqlite_embeddings[k].document_id,
                                    sqlite_embeddings[k].chunk_id>> :
                                      k \in 1..Len(sqlite_embeddings)})

\* C21: a row of the citations CSV gives a document with authority weight
\* 0.5, court_level database and jurisdiction multi_jurisdiction, in the
\* record the adapter builds and in the metadata the LegalDocument is
\* built with, whatever the text of the record holds.
C21_CitationRecordWeight ==
    csv_file = "citations" =>
        /\ record.present =>
              /\ record.val.authority_weight = 5
              /\ record.val.court_level = "database"
              /\ record.val.jurisdiction = "multi_jurisdiction"
        /\ metadata.present =>
              /\ metadata.val.authority_weight = 5
              /\ metadata.val.court_level = "database"
              /\ metadata.val.jurisdiction = "multi_jurisdiction"

\* the documents collected from batches before the current one precede the
\* documents of the current batch in the accumulated list
BatchOrderKept ==
    \A j, k \in 1..Len(all_legal_docs) :
        (/\ RecordNo(all_legal_docs[j]) <= nread + i
         /\ RecordNo(all_legal_docs[k]) > nread + i) => j < k

\* successive flushes move forward in the accumulated list
FlushOrderKept ==
    \A a, b \in 1..Len(flushes) :
        a < b => flushes[a].lo <= flushes[b].lo /\ flushes[a].hi <= flushes[b].hi

\* the checkpoint test after a batch flushes exactly when the documents
\* accumulated over the whole run number FlushEvery or more, and then
\* flushes the last FlushEvery of them
ThresholdIsGlobal ==
    pc = "store" =>
        /\ (flushes' # flushes) <=> (Len(all_legal_docs) >= FlushEvery)
        /\ flushes' # flushes =>
              /\ Len(flushes') = Len(flushes) + 1
              /\ flushes'[Len(flushes')].hi = Len(all_legal_docs)
              /\ flushes'[Len(flushes')].lo = Len(all_legal_docs) - FlushEvery + 1

\* C22: batches are processed in reading order (the documents of one batch
\* precede those of the next in the accumulated list and in flush order),
\* and the checkpoint threshold is compared with the count accumulated
\* over all batches and files of the run.
C22_BatchOrderAndGlobalThreshold ==
    /\ [](BatchOrderKept /\ FlushOrderKept)
    /\ [][ThresholdIsGlobal]_vars

\* C22 witness: a checkpoint flush made in the second file covered
\* documents of the first file and of the second
C22_Witness ==
    /\ pc = "collect"
    /\ i > 0
    /\ nread > 0
    /\ Len(flushes) = 1
    /\ RecordNo(all_legal_docs[flushes[1].lo]) <= nread
    /\ RecordNo(all_legal_docs[flushes[1].hi]) > nread

\* C23: when extract_legal_metadata raises for a record with text,
\* process_legal_document still returns a LegalDocument, built with the
\* all-unknown default metadata.
C23_MetadataFailureKeepsDocument ==
    (/\ proc_result.present
     /\ IsDict(raw_record)
     /\ FullTextOf(raw_record) # <<>>
     /\ extract_raises) =>
        /\ proc_result.val.outcome = "doc"
        /\ proc_result.val.doc.court_level = "unknown"
        /\ proc_result.val.doc.jurisdiction = "unknown"
        /\ proc_result.val.doc.legal_areas = {}
        /\ proc_result.val.doc.authority_weight = 1
        /\ proc_result.val.doc.citations_extracted = {}

\* C24: optimize_for_deepseek_r1 returns the text unchanged without a
\* tokenizer or when the text is within the budget of max_tokens tokens;
\* otherwise it returns the first max_tokens \div 3 tokens, the truncation
\* marker and the last max_tokens \div 3 tokens; applied again to a result
\* within the budget it changes nothing.
C24_OptimizeKeepsEndsAndIsStable ==
    optimized # <<>> =>
        LET n == Len(field_text)
            third == max_tokens \div 3
        IN  /\ (~tokenizer_loaded \/ n <= max_tokens) => optimized[1] = field_text
            /\ (tokenizer_loaded /\ n > max_tokens) =>
                   optimized[1] = SubSeq(field_text, 1, third) \o TruncationMarker
                                  \o SubSeq(field_text, n - third + 1, n)
            /\ (Len(optimized) = 2 /\ Len(optimized[1]) <= max_tokens) =>
                   optimized[2] = optimized[1]

\* C24 witness: a text over the budget was truncated, and the result
\* optimized again
C24_Witness ==
    /\ tokenizer_loaded
    /\ Len(field_text) > max_tokens
    /\ Len(optimized) = 2
    /\ optimized[1] # field_text
    /\ Len(optimized[1]) <= max_tokens

\* the records read from each file passed so far, by the shape of the file
JsonShapesRead ==
    \A k \in 1..Len(read_docs) :
        LET file == read_files[k] IN
        /\ file.ext = ".json" =>
              read_docs[k] = CASE file.content.kind = "array" -> file.content.items
                               [] file.content.kind = "object" -> <<file.content.value>>
                               [] OTHER -> <<>>
        /\ file.ext \notin {".tar.gz", ".json.gz", ".json", ".csv.bz2"} =>
              read_docs[k] = <<>>

\* C25: a plain JSON file gives one record for a top-level object, N
\* records for a top-level array of N elements and no record for another
\* shape or an unreadable file; a file with an unsupported extension gives
\* no record, and the loop goes on to the files after it.
C25_JsonShapesAndUnsupportedFiles ==
    /\ []JsonShapesRead
    /\ <>(Len(read_docs) = Len(read_files))

\* C25 witness: a file with an unsupported extension was skipped and the
\* JSON array of two elements after it gave two records
C25_Witness ==
    /\ Len(read_docs) = 2
    /\ read_files[1].ext = ".txt"
    /\ read_docs[1] = <<>>
    /\ read_files[2].ext = ".json"
    /\ read_files[2].content.kind = "array"
    /\ Len(read_docs[2]) = 2

\* C26: a store write starts only after every worker of the batch has
\* finished, only the coordinating thread appends to the accumulated list,
\* no store write and no append to the list happens while a worker of the
\* batch runs process_legal_document, and at most one store write is in
\* progress at any time.
StoreAfterWorkers == store_in_progress # {} => futures = <<>>
OnlyCoordinatorAppends == appended_by \subseteq {Coordinator}
NoAppendWhileWorkerRuns == pc = "append" => Running = {}
AtMostOneFlush == Cardinality(store_in_progress) <= 1
C26_StoresAndAppendsApartFromWorkers ==
    /\ StoreAfterWorkers
    /\ OnlyCoordinatorAppends
    /\ NoAppendWhileWorkerRuns
    /\ AtMostOneFlush

\* the document of the accumulated list that comes last in reading order
\* among those with the given id
LatestInReadingOrder(id) ==
    CHOOSE d \in {all_legal_docs[k] : k \in 1..Len(all_legal_docs)} :
        /\ d.id = id
        /\ \A k \in 1..Len(all_legal_docs) :
              all_legal_docs[k].id = id => RecordNo(all_legal_docs[k]) <= RecordNo(d)

\* C27: for a fixed sequence of records and no faults the final documents
\* table does not depend on the order in which the workers of a batch
\* complete: when every record read has become a document and no store
\* fault happened, the table a finished run leaves is the one the run that
\* completes in reading order leaves, which holds for every id the row of
\* the document read last.
C27_TableIndependentOfCompletionOrder ==
    (pc = "done" /\ faults = 0 /\ error_counter = 0 /\ Len(all_legal_docs) = nread) =>
        sqlite_documents =
            {DocumentRow(LatestInReadingOrder(all_legal_docs[k].id)) :
                k \in 1..Len(all_legal_docs)}

\* C28: at every point of a run stats.processed_documents is at most the
\* number of documents processed so far, and when
\* process_courtlistener_files returns it is the length of the list it
\* returns.
CountedAtMostProcessed == processed_documents <= Len(all_legal_docs)
CountedAllAtReturn == pc = "done" => processed_documents = Len(all_legal_docs)
C28_ProcessedDocumentsCount == CountedAtMostProcessed /\ CountedAllAtReturn

\* C29: two records whose sanitized (case_name, citation) pairs differ get
\* different document ids, also when the parts contain the underscore and
\* when a record has no case name or no citation.
C29_DistinctPairsDistinctIds ==
    (doc_ids.present /\ SanitizedPairOf(id_records[1]) # SanitizedPairOf(id_records[2])) =>
        doc_ids.val[1] # doc_ids.val[2]

\* the chunk vectors of the document that have a point in the collection
ChunkVectorsStored(doc) ==
    \A k \in 1..Len(doc.chunk_embeddings.val) :
        \E q \in qdrant_points :
            /\ q.payload.is_chunk
            /\ q.payload.document_id = doc.id
            /\ q.payload.chunk_index = k - 1
            /\ q.vector = doc.chunk_embeddings.val[k]

\* C30: in the LegalDocument process_legal_document builds the
\* document-level embedding is present exactly when chunk_embeddings is a
\* non-empty list, so store_in_qdrant, which skips a document without a
\* document-level embedding, leaves out no chunk vector that exists.
C30_EmbeddingIffChunkEmbeddings ==
    built.present =>
        /\ built.val.embedding.present <=> HasChunkEmbeddings(built.val)
        /\ (built_stored /\ HasChunkEmbeddings(built.val)) => ChunkVectorsStored(built.val)

C30_Witness ==
    /\ built.present
    /\ built_stored
    /\ HasChunkEmbeddings(built.val)
    /\ built.val.embedding.present
    /\ Cardinality(qdrant_points) = 2
====
